---- MODULE Spec2Model ----
(***************************************************************************)
(* Model of intro.js:                                                      *)
(*   - determineAutoPosition / determineAutoAlignment                      *)
(*       (src/packages/tooltip/tooltipPosition.ts)                         *)
(*   - alignTooltip / checkRight (src/packages/tooltip/tooltip.ts)         *)
(*   - nextStep / previousStep / fetchSteps (src/packages/tour/steps.ts)   *)
(*   - CampaignManager.executeCampaign and CampaignStorage                 *)
(*       (src/packages/campaign/manager.ts, storage.ts)                    *)
(* Each subsystem has its own specification over the shared variables; the *)
(* variables of the other subsystems are held at rest.                     *)
(* All lengths are pixels.  The inputs enumerated below are even numbers,  *)
(* so the source's "/ 2" is exact and is written \div 2.                   *)
(***************************************************************************)
EXTENDS Integers, Sequences, FiniteSets, TLC

VARIABLES
  pc,                   \* which function, if any, has run: "init", "positioned", "aligned"
  positionPrecedence,   \* TooltipBasePosition[] passed by the caller
  targetOffset,         \* Offset of the anchor (getOffset's result)
  tooltipWidth,         \* overlay width
  tooltipHeight,        \* overlay height
  windowSize,           \* {width, height}
  desiredTooltipPosition, \* the step's requested position
  position,             \* the position in use: result of determineAutoPosition, or the requested one
  showStepNumbers,      \* alignTooltip input
  hintMode,             \* alignTooltip input
  tooltipTop,           \* the six outputs of alignTooltip (CSS values)
  tooltipRight,
  tooltipBottom,
  tooltipLeft,
  tooltipMarginLeft,
  tooltipMarginTop,
  runs,                 \* how many times alignTooltip has run on these inputs
  \* ---- tour step controller (steps.ts)
  stepCount,            \* tour._steps.length
  currentStep,          \* tour.getCurrentStep(): an index, or Undefined
  direction,            \* tour.getDirection(): "forward" or "backward"
  navPc,                \* per call: "idle", "awaiting" (the before-change hook), "returned"
  navKind,              \* per call: "next" or "prev"
  navTarget,            \* per call: the index read before the hook (nextStepIndex / prevStepIndex)
  navResult,            \* per call: "none", "true", "false", or "error" (the promise rejected)
  navId,                \* per call: serial number of the call, 0 before the first
  navHook,              \* per call: how the hook settled: "none", "continue", "false", "throw"
  navStale,             \* per call: exit() ran while the call was awaiting its hook
  navCount,             \* number of nextStep/previousStep calls issued so far
  hookCalls,            \* invocations of the beforeChange callback
  showCalls,            \* invocations of showElement
  lastShown,            \* the step last passed to showElement, or Undefined
  completeCalls,        \* invocations of the complete callback
  completeReason,       \* reason passed to the last complete callback, or "none"
  skipCalls,            \* invocations of the skip callback
  exitCalls,            \* exits that left the Active state (the exit callback ran)
  \* ---- step list and the tooltip of the shown step (fetchSteps, Tooltip)
  stepsOption,          \* tour.getOption("steps"): the programmatic list
  autoPosition,         \* tour.getOption("autoPosition")
  introSteps,           \* the list fetchSteps returned; <<>> before it ran
  fetched,              \* whether fetchSteps has run
  tipStep,              \* index in introSteps of the step whose Tooltip exists, 0 for none
  tipPosition,          \* position.val of that Tooltip
  tipPasses,            \* placement passes that Tooltip has made
  \* ---- campaign manager (manager.ts, storage.ts)
  frequency,            \* campaign.frequency: [type, limit, cooldownMs], 0 for an absent number
  storedCount,          \* localStorage: data.count of the campaign
  storedLast,           \* localStorage: data.lastExecution, 0 for null
  sessionExecuted,      \* sessionStorage holds the campaign's key
  clock,                \* Date.now()
  execPc,               \* per executeCampaign call: "idle", "checked", "tracked", "returned"
  execResult,           \* per call: "none", "true", "false"
  execCount,            \* executeCampaign calls issued so far
  toursStarted,         \* calls of tour.start() made for the campaign
  sessionStarts,        \* those of them made in the current browser session
  activeTour,           \* activeTours holds a tour for the campaign
  runningTours,         \* the campaign's tours started and not yet completed or exited,
                        \* each named by its number in the order of creation
  trackedTour,          \* the tour activeTours holds for the campaign, 0 for none
  \* ---- campaign registry and trigger detector (manager.ts, triggers.ts)
  mgr,                  \* the CampaignManager with its TriggerDetector, and the page's
                        \* live listeners, timers and tours (fields: see EmptyManager)
  lastExec,             \* [id, result] of the last executeCampaign/triggerCampaign step:
                        \* result is "false", "true", or "pending" while the call awaits
  stopPc,               \* stopAllCampaigns: "idle", or "called" while its promise is pending
  stopSnapshot,         \* the tours that were in activeTours when stopAllCampaigns was called
  \* ---- measuring an element (util/getOffset.ts)
  dom,                  \* the measured element, its chain of ancestors and the page scroll
  container,            \* index in the chain of the container passed to the last getOffset call
  measured,             \* the Offsets returned by the last getOffset call: <<>> or <<Offset>>
  \* ---- the refresh signal of the Tooltip component (tooltip.ts 343-421)
  refreshes,            \* the refresh counter
  seen,                 \* the counter value the refresh derive used at its last run
  dirty,                \* the derives that have a changed dependency and have not run since
  viewport,             \* the size of the window as getWindowSize would read it now
  anchorRect,           \* the anchor's bounding rectangle as getOffset would read it now
  bottomOverflow,       \* the derived state tooltipBottomOverflow
  \* ---- the rendered overlay (tooltip.ts 423-451)
  markup,               \* [elements, group]: the elements of the page that carry the
                        \* intro attribute, in document order, and the group option
  overlay,              \* [painted, box, timer]: whether the overlay has been laid out,
                        \* its real box, and whether the 1ms measuring timer has fired
  skip                  \* the skip button's handler: [pc, atLast, log, clicks]

placementVars == <<pc, positionPrecedence, targetOffset, tooltipWidth, tooltipHeight,
                   windowSize, desiredTooltipPosition, position, showStepNumbers,
                   hintMode, tooltipTop, tooltipRight, tooltipBottom, tooltipLeft,
                   tooltipMarginLeft, tooltipMarginTop, runs>>

navVars == <<navPc, navKind, navTarget, navResult, navId, navHook, navStale, navCount>>

callbackVars == <<hookCalls, showCalls, lastShown, completeCalls, completeReason,
                  skipCalls, exitCalls>>

tourVars == <<stepCount, currentStep, direction, navVars, callbackVars>>

stepListVars == <<stepsOption, autoPosition, introSteps, fetched, tipStep, tipPosition,
                  tipPasses, markup>>

campaignVars == <<frequency, storedCount, storedLast, sessionExecuted, clock, execPc,
                  execResult, execCount, toursStarted, sessionStarts, activeTour,
                  runningTours, trackedTour>>

managerVars == <<mgr, lastExec, stopPc, stopSnapshot>>

offsetVars == <<dom, container, measured>>

refreshVars == <<refreshes, seen, dirty, viewport, anchorRect, bottomOverflow>>

overlayVars == <<overlay>>

skipVars == <<skip>>

vars == <<placementVars, tourVars, stepListVars, campaignVars, managerVars, offsetVars,
          refreshVars, overlayVars, skipVars>>

\* The variables that the specification of one subsystem leaves alone.
nonPlacementVars ==
  <<tourVars, stepListVars, campaignVars, managerVars, offsetVars, refreshVars, overlayVars, skipVars>>

nonTourVars ==
  <<placementVars, stepListVars, campaignVars, managerVars, offsetVars, refreshVars, overlayVars, skipVars>>

\* What a step of the skip handler leaves alone besides the tour.
nonTourVarsButSkip ==
  <<placementVars, stepListVars, campaignVars, managerVars, offsetVars, refreshVars, overlayVars>>

nonStepListVars ==
  <<placementVars, tourVars, campaignVars, managerVars, offsetVars, refreshVars, overlayVars, skipVars>>

nonCampaignVars ==
  <<placementVars, tourVars, stepListVars, managerVars, offsetVars, refreshVars, overlayVars, skipVars>>

nonManagerVars ==
  <<placementVars, tourVars, stepListVars, campaignVars, offsetVars, refreshVars, overlayVars, skipVars>>

nonOffsetVars ==
  <<placementVars, tourVars, stepListVars, campaignVars, managerVars, refreshVars, overlayVars, skipVars>>

\* What a step of the Tooltip component's derives leaves alone besides the
\* placement variables.
nonRefreshVars ==
  <<tourVars, stepListVars, campaignVars, managerVars, offsetVars, overlayVars, skipVars>>

nonRefreshVarsButOverlay ==
  <<tourVars, stepListVars, campaignVars, managerVars, offsetVars, skipVars>>

inputVars == <<positionPrecedence, targetOffset, tooltipWidth, tooltipHeight,
               windowSize, desiredTooltipPosition, showStepNumbers, hintMode>>

edgeVars == <<tooltipTop, tooltipRight, tooltipBottom, tooltipLeft,
              tooltipMarginLeft, tooltipMarginTop>>

---------------------------------------------------------------------------
(* States of the other subsystems as they are constructed.                 *)

\* "undefined" as the value of the current step index.
Undefined == -1

\* Overlapping invocations of nextStep/previousStep on one tour.
Calls == {1, 2}

\* A tour of n steps as constructed: no current step, direction forward,
\* no navigation call issued.
TourInitial(n) ==
  /\ stepCount = n
  /\ currentStep = Undefined
  /\ direction = "forward"
  /\ navPc = [c \in Calls |-> "idle"]
  /\ navKind = [c \in Calls |-> "next"]
  /\ navTarget = [c \in Calls |-> Undefined]
  /\ navResult = [c \in Calls |-> "none"]
  /\ navId = [c \in Calls |-> 0]
  /\ navHook = [c \in Calls |-> "none"]
  /\ navStale = [c \in Calls |-> FALSE]
  /\ navCount = 0
  /\ hookCalls = 0
  /\ showCalls = 0
  /\ lastShown = Undefined
  /\ completeCalls = 0
  /\ completeReason = "none"
  /\ skipCalls = 0
  /\ exitCalls = 0

\* Overlapping invocations of executeCampaign for one campaign.
Execs == {1, 2}

\* No programmatic steps, fetchSteps not run, no tooltip.
StepListAtRest ==
  /\ markup = [elements |-> <<>>, group |-> ""]
  /\ stepsOption = <<>>
  /\ autoPosition = TRUE
  /\ introSteps = <<>>
  /\ fetched = FALSE
  /\ tipStep = 0
  /\ tipPosition = "bottom"
  /\ tipPasses = 0

\* A campaign with frequency f for a user who has no stored history, at
\* time t; executeCampaign not called yet.
CampaignInitial(f, t) ==
  /\ frequency = f
  /\ storedCount = 0
  /\ storedLast = 0
  /\ sessionExecuted = FALSE
  /\ clock = t
  /\ execPc = [e \in Execs |-> "idle"]
  /\ execResult = [e \in Execs |-> "none"]
  /\ execCount = 0
  /\ toursStarted = 0
  /\ sessionStarts = 0
  /\ activeTour = FALSE
  /\ runningTours = {}
  /\ trackedTour = 0

CampaignAtRest == CampaignInitial([type |-> "always", limit |-> 0, cooldownMs |-> 0], 1)

\* The campaigns a configuration can name.
CampaignIds == {"a", "b"}

\* A CampaignManager as constructed, on a page with nothing attached:
\*   campaigns       id -> the active flag of the registered campaign object
\*   triggers        TriggerDetector.triggers: id -> the trigger types added
\*   eventListeners  TriggerDetector.eventListeners: key -> handle of the
\*                   listener its cleanup function removes
\*   timers          TriggerDetector.timers: key -> handle of the timer
\*   live            the listeners attached to the page and the timers
\*                   running, as [h, id, type]: firing one calls the
\*                   trigger callback of campaign id
\*   tours           the tours created, as [h, id, state]
\*   activeTours     id -> handle of the tour stored for the campaign
\*   pending         ids whose executeCampaign call awaits shouldExecuteCampaign
\*   tracked         id -> executions tracked in storage
\*   handles         handles given out so far
EmptyManager ==
  [campaigns |-> <<>>, triggers |-> <<>>, eventListeners |-> <<>>, timers |-> <<>>,
   live |-> {}, tours |-> {}, activeTours |-> <<>>,
   pending |-> {}, tracked |-> [id \in CampaignIds |-> 0], handles |-> 0]

ManagerAtRest ==
  /\ mgr = EmptyManager
  /\ lastExec = [id |-> "none", result |-> "none"]
  /\ stopPc = "idle"
  /\ stopSnapshot = {}

\* No element has been measured: a page holding only body and html.
OffsetAtRest ==
  /\ dom = [fixed |-> FALSE, rect |-> [top |-> 0, left |-> 0, width |-> 0, height |-> 0],
            chain |-> <<>>, pageXOffset |-> 0, pageYOffset |-> 0]
  /\ container = 0
  /\ measured = <<>>

\* No refresh was signalled and no derive is waiting to run.
RefreshAtRest ==
  /\ refreshes = 0
  /\ seen = 0
  /\ dirty = {}
  /\ viewport = [width |-> 48, height |-> 40]
  /\ anchorRect = [left |-> 0, top |-> 0, width |-> 8, height |-> 8]
  /\ bottomOverflow = FALSE

\* The skip button has not been clicked.
SkipAtRest == skip = [pc |-> "idle", atLast |-> FALSE, log |-> <<>>, clicks |-> 0]

\* No overlay is rendered.
OverlayAtRest == overlay = [painted |-> FALSE, box |-> [width |-> 0, height |-> 0], timer |-> "none"]

NonPlacementAtRest ==
  /\ OverlayAtRest
  /\ SkipAtRest
  /\ TourInitial(1)
  /\ StepListAtRest
  /\ CampaignAtRest
  /\ ManagerAtRest
  /\ OffsetAtRest
  /\ RefreshAtRest

---------------------------------------------------------------------------
(* Position names (type TooltipPosition)                                   *)

TooltipBasePosition == {"floating", "top", "bottom", "left", "right"}

TooltipAlignment ==
  {"top-left-aligned", "top-middle-aligned", "top-right-aligned",
   "bottom-left-aligned", "bottom-middle-aligned", "bottom-right-aligned"}

TooltipPosition == TooltipBasePosition \cup TooltipAlignment

\* The four sides a precedence list may name.
Sides == {"top", "bottom", "left", "right"}

\* String.prototype.split("-") on a position name.
SplitDash(p) ==
  CASE p = "top-left-aligned"      -> <<"top", "left", "aligned">>
    [] p = "top-middle-aligned"    -> <<"top", "middle", "aligned">>
    [] p = "top-right-aligned"     -> <<"top", "right", "aligned">>
    [] p = "bottom-left-aligned"   -> <<"bottom", "left", "aligned">>
    [] p = "bottom-middle-aligned" -> <<"bottom", "middle", "aligned">>
    [] p = "bottom-right-aligned"  -> <<"bottom", "right", "aligned">>
    [] OTHER                       -> <<p>>

\* The template string `${base}-${align}-${side}`.
JoinDash(base, align, side) ==
  IF \E q \in TooltipAlignment : SplitDash(q) = <<base, align, side>>
  THEN CHOOSE q \in TooltipAlignment : SplitDash(q) = <<base, align, side>>
  ELSE "unknown"

\* a.endsWith(word + "-aligned")
EndsWithAligned(a, word) ==
  LET parts == SplitDash(a)
  IN  Len(parts) = 3 /\ parts[2] = word /\ parts[3] = "aligned"

\* Array.prototype.includes
Includes(seq, x) == \E i \in 1..Len(seq) : seq[i] = x

\* Array.prototype.filter((p) => p !== x)
FilterOut(seq, x) == SelectSeq(seq, LAMBDA p : p # x)

---------------------------------------------------------------------------
(* tooltipPosition.ts: determineAutoAlignment, determineAutoPosition       *)

\* const margin = 8
AlignmentMargin == 8

\* tooltipWidth + 12, tooltipHeight + 12
PositionBuffer == 12

\* getCenterFromOffset(offset).centerX
centerXOf(offset) == offset.left + offset.width \div 2

\* the smallest index of a non-empty set of indices (first hit of a for..of loop)
FirstIndex(S) == CHOOSE i \in S : \A j \in S : i <= j

\* desiredAlignments.find((d) => d.endsWith(word + "-aligned"))
FindAligned(desiredAlignments, word) ==
  LET hits == {i \in 1..Len(desiredAlignments) :
                 EndsWithAligned(desiredAlignments[i], word)}
  IN  IF hits = {} THEN "undefined" ELSE desiredAlignments[FirstIndex(hits)]

\* A fit-checking variant: the requested alignment is honoured only when it fits.
determineAutoAlignmentIfFits(centerX, tW, viewportWidth, desiredAlignments, requestedAlignment) ==
  LET halfWidth  == tW \div 2
      margin     == AlignmentMargin
      spaceLeft  == centerX
      spaceRight == viewportWidth - centerX
      canMiddle  == spaceLeft >= halfWidth + margin /\ spaceRight >= halfWidth + margin
      canLeft    == spaceLeft >= tW \div 2 + margin
      canRight   == spaceRight >= tW \div 2 + margin
      Accepts(a) == \/ EndsWithAligned(a, "middle") /\ canMiddle
                    \/ EndsWithAligned(a, "left") /\ canLeft
                    \/ EndsWithAligned(a, "right") /\ canRight
      hits       == {i \in 1..Len(desiredAlignments) : Accepts(desiredAlignments[i])}
  IN  IF /\ requestedAlignment # "undefined"
         /\ Includes(desiredAlignments, requestedAlignment)
         /\ Accepts(requestedAlignment)
      THEN requestedAlignment
      ELSE IF hits # {} THEN desiredAlignments[FirstIndex(hits)]
      ELSE "null"

\* A middle-first variant: the loop prefers middle, then right, then left.
determineAutoAlignmentMiddleFirst(centerX, tW, viewportWidth, desiredAlignments, requestedAlignment) ==
  LET halfWidth  == tW \div 2
      margin     == AlignmentMargin
      spaceLeft  == centerX
      spaceRight == viewportWidth - centerX
      canMiddle  == spaceLeft >= halfWidth + margin /\ spaceRight >= halfWidth + margin
      canLeft    == spaceLeft >= tW \div 2 + margin
      canRight   == spaceRight >= tW \div 2 + margin
  IN  IF requestedAlignment # "undefined" /\ Includes(desiredAlignments, requestedAlignment)
      THEN requestedAlignment
      ELSE IF canMiddle THEN FindAligned(desiredAlignments, "middle")
      ELSE IF canRight THEN FindAligned(desiredAlignments, "right")
      ELSE IF canLeft THEN FindAligned(desiredAlignments, "left")
      ELSE "null"

\* A variant whose loop walks the candidate list from its end.
determineAutoAlignmentReversed(centerX, tW, viewportWidth, desiredAlignments, requestedAlignment) ==
  LET halfWidth  == tW \div 2
      margin     == AlignmentMargin
      spaceLeft  == centerX
      spaceRight == viewportWidth - centerX
      canMiddle  == spaceLeft >= halfWidth + margin /\ spaceRight >= halfWidth + margin
      canLeft    == spaceLeft >= tW \div 2 + margin
      canRight   == spaceRight >= tW \div 2 + margin
      Accepts(a) == \/ EndsWithAligned(a, "middle") /\ canMiddle
                    \/ EndsWithAligned(a, "left") /\ canLeft
                    \/ EndsWithAligned(a, "right") /\ canRight
      hits       == {i \in 1..Len(desiredAlignments) : Accepts(desiredAlignments[i])}
  IN  IF requestedAlignment # "undefined" /\ Includes(desiredAlignments, requestedAlignment)
      THEN requestedAlignment
      ELSE IF hits # {} THEN desiredAlignments[CHOOSE i \in hits : \A j \in hits : j <= i]
      ELSE "null"

\* determineAutoAlignment: "null" stands for the null result,
\* "undefined" for a requestedAlignment that was not passed.
determineAutoAlignment(centerX, tW, viewportWidth, desiredAlignments, requestedAlignment) ==
  LET halfWidth  == tW \div 2
      margin     == AlignmentMargin
      spaceLeft  == centerX
      spaceRight == viewportWidth - centerX
      canMiddle  == spaceLeft >= halfWidth + margin /\ spaceRight >= halfWidth + margin
      canLeft    == spaceLeft >= tW \div 2 + margin
      canRight   == spaceRight >= tW \div 2 + margin
      \* one pass of the for..of body: does it return a ?
      Accepts(a) == \/ EndsWithAligned(a, "middle") /\ canMiddle
                    \/ EndsWithAligned(a, "left") /\ canLeft
                    \/ EndsWithAligned(a, "right") /\ canRight
      hits       == {i \in 1..Len(desiredAlignments) : Accepts(desiredAlignments[i])}
  IN  IF requestedAlignment # "undefined" /\ Includes(desiredAlignments, requestedAlignment)
      THEN requestedAlignment
      ELSE IF hits # {} THEN desiredAlignments[FirstIndex(hits)]
      ELSE IF canMiddle THEN FindAligned(desiredAlignments, "middle")
      ELSE IF canRight THEN FindAligned(desiredAlignments, "right")
      ELSE IF canLeft THEN FindAligned(desiredAlignments, "left")
      ELSE "null"

\* The four clearance filters: the sides of the precedence list that survive.
possible(precedence, target, tW, tH, viewportWidth, viewportHeight) ==
  LET p0 == precedence
      p1 == IF target.bottom + tH > viewportHeight THEN FilterOut(p0, "bottom") ELSE p0
      p2 == IF target.top - tH < 0 THEN FilterOut(p1, "top") ELSE p1
      p3 == IF target.right + tW > viewportWidth THEN FilterOut(p2, "right") ELSE p2
      p4 == IF target.left - tW < 0 THEN FilterOut(p3, "left") ELSE p3
  IN  p4

\* baseRequested: the part of the desired position before the first "-".
baseRequested(desired) ==
  IF Len(SplitDash(desired)) > 1 THEN SplitDash(desired)[1] ELSE desired

\* requestedAlignment: the desired position when it has the three parts
\* base-align-side, else undefined.
requestedAlignmentOf(desired) ==
  LET parts == SplitDash(desired)
  IN  IF Len(parts) = 3 THEN JoinDash(parts[1], parts[2], parts[3]) ELSE "undefined"

\* A best-fit-like variant: the last surviving side instead of the first.
chosenBaseLast(poss, requested) ==
  IF Includes(poss, requested) THEN requested ELSE poss[Len(poss)]

\* A variant that takes the requested base whether it survived or not.
chosenBaseAlwaysRequested(poss, requested) == requested

\* A variant that never looks at the requested base.
chosenBaseFirst(poss, requested) == poss[1]

\* chosenBase, for a non-empty list of survivors.
chosenBase(poss, requested) ==
  IF Includes(poss, requested) THEN requested ELSE poss[1]

\* The alignment sub-decision for a top or bottom base; other bases as they are.
alignedPosition(base, target, tW, viewportWidth, desired) ==
  IF base \in {"top", "bottom"}
  THEN LET desiredAlignments ==
             IF base = "top"
             THEN <<"top-left-aligned", "top-middle-aligned", "top-right-aligned">>
             ELSE <<"bottom-left-aligned", "bottom-middle-aligned", "bottom-right-aligned">>
           alignment == determineAutoAlignment(centerXOf(target), tW, viewportWidth,
                                               desiredAlignments,
                                               requestedAlignmentOf(desired))
       IN  IF alignment = "null"
           THEN (IF base = "top" THEN "top-middle-aligned" ELSE "bottom-middle-aligned")
           ELSE alignment
  ELSE base

\* A variant without the early return for an empty list of survivors:
\* it falls back to the desired position.
determineAutoPositionNoFloat(precedence, target, tipWidth, tipHeight, desired, window) ==
  LET tW   == tipWidth + PositionBuffer
      tH   == tipHeight + PositionBuffer
      poss == possible(precedence, target, tW, tH, window.width, window.height)
  IN  IF Len(poss) = 0 THEN desired
      ELSE alignedPosition(chosenBase(poss, baseRequested(desired)),
                           target, tW, window.width, desired)

\* determineAutoPosition, called with a {width, height} window size.
determineAutoPosition(precedence, target, tipWidth, tipHeight, desired, window) ==
  LET tW   == tipWidth + PositionBuffer
      tH   == tipHeight + PositionBuffer
      poss == possible(precedence, target, tW, tH, window.width, window.height)
  IN  IF Len(poss) = 0 THEN "floating"
      ELSE alignedPosition(chosenBase(poss, baseRequested(desired)),
                           target, tW, window.width, desired)

---------------------------------------------------------------------------
(* getOffset (util/getOffset.ts), for an element measured by its viewport  *)
(* rectangle: the fixed-position branch and the normal-flow branch, which  *)
(* are the two a call without a container can take.                        *)

getOffset(rect, fixed, pageXOffset, pageYOffset) ==
  LET top  == IF fixed THEN rect.top ELSE rect.top + pageYOffset
      left == IF fixed THEN rect.left ELSE rect.left + pageXOffset
  IN  [top            |-> top,
       left           |-> left,
       width          |-> rect.width,
       height         |-> rect.height,
       bottom         |-> top + rect.height,
       right          |-> left + rect.width,
       absoluteTop    |-> rect.top + pageYOffset,
       absoluteLeft   |-> rect.left + pageXOffset,
       absoluteBottom |-> rect.top + rect.height + pageYOffset,
       absoluteRight  |-> rect.left + rect.width + pageXOffset]

\* The earlier definition of the same two functions in tooltipPosition.ts
\* (lines 21-135).  removeEntry takes one entry out of the list; the lists
\* here hold each entry once.
\* determineAutoAlignment: screenWidth is window.screen.width.
determineAutoAlignmentFirst(offsetLeft, tipWidth, windowWidth, screenWidth, desiredAlignment, requestedAlignment) ==
  LET halfTooltipWidth == tipWidth \div 2
      winWidth == IF windowWidth < screenWidth THEN windowWidth ELSE screenWidth
      margin   == 10
      d1 == IF winWidth - (offsetLeft + halfTooltipWidth) < margin
              THEN FilterOut(FilterOut(desiredAlignment, "top-middle-aligned"),
                             "bottom-middle-aligned")
              ELSE desiredAlignment
      d2 == IF offsetLeft + halfTooltipWidth < margin
              THEN FilterOut(FilterOut(d1, "top-middle-aligned"), "bottom-middle-aligned")
              ELSE d1
      d3 == IF offsetLeft + tipWidth - margin > winWidth
              THEN FilterOut(FilterOut(d2, "top-right-aligned"), "bottom-right-aligned")
              ELSE d2
  IN  IF Includes(desiredAlignment, requestedAlignment) THEN requestedAlignment
      ELSE IF Len(d3) > 0 THEN d3[1]
      ELSE "null"

\* determineAutoPosition: clearance on the absolute* fields with a buffer of 10.
determineAutoPositionFirst(precedence, target, tipWidth, tipHeight, desired, window, screenWidth) ==
  LET tooltipWidthAdjusted  == tipWidth + 10
      tooltipHeightAdjusted == tipHeight + 10
      p1 == IF target.absoluteBottom + tooltipHeightAdjusted > window.height
              THEN FilterOut(precedence, "bottom") ELSE precedence
      p2 == IF target.absoluteTop - tooltipHeightAdjusted < 0 THEN FilterOut(p1, "top") ELSE p1
      p3 == IF target.absoluteRight + tooltipWidthAdjusted > window.width
              THEN FilterOut(p2, "right") ELSE p2
      possiblePositions == IF target.absoluteLeft - tooltipWidthAdjusted < 0
                             THEN FilterOut(p3, "left") ELSE p3
      requestedBasePos == SplitDash(desired)[1]
      calculatedPosition ==
        IF Len(possiblePositions) > 0
          THEN (IF Includes(possiblePositions, requestedBasePos)
                  THEN requestedBasePos ELSE possiblePositions[1])
          ELSE "floating"
  IN  IF calculatedPosition \in {"top", "bottom"}
        THEN LET desiredAlignment ==
                   IF calculatedPosition = "top"
                     THEN <<"top-left-aligned", "top-middle-aligned", "top-right-aligned">>
                     ELSE <<"bottom-left-aligned", "bottom-middle-aligned",
                            "bottom-right-aligned">>
                 alignment == determineAutoAlignmentFirst(target.absoluteLeft,
                                tooltipWidthAdjusted, window.width, screenWidth,
                                desiredAlignment, desired)
             IN  IF alignment = "null"
                   THEN (IF calculatedPosition = "top" THEN "top-middle-aligned"
                         ELSE "bottom-middle-aligned")
                   ELSE alignment
        ELSE calculatedPosition

\* Values of window.screen.width: narrower than, equal to and wider than the windows.
ScreenWidths == {24, 48, 1000, 1920}

---------------------------------------------------------------------------
(* Inputs                                                                  *)

\* Anchor positions lie on a grid of 8px: 0, 8, ..., 8 * MaxLeft (resp. MaxTop).
MaxLeft == 4
MaxTop == 4

AnchorLefts == {8 * k : k \in 0..MaxLeft}
AnchorTops == {8 * k : k \in 0..MaxTop}
AnchorSizes == {[width |-> 8, height |-> 8]}
TipWidths == {4, 12, 36}
TipHeights == {4, 20}
WindowSizes == {[width |-> 48, height |-> 40]}

\* An element in normal flow on an unscrolled page, or a fixed element on a
\* page scrolled by 8px on both axes.
Frames == {[fixed |-> FALSE, page |-> 0], [fixed |-> TRUE, page |-> 8]}

GridOffsets ==
  {getOffset([left |-> l, top |-> t, width |-> sz.width, height |-> sz.height],
             f.fixed, f.page, f.page) :
     l \in AnchorLefts, t \in AnchorTops, sz \in AnchorSizes, f \in Frames}

\* Every list of distinct sides, the empty list included.
PrecedenceLists ==
  {s \in UNION {[1..n -> Sides] : n \in 0..4} :
     \A i, j \in 1..Len(s) : i # j => s[i] # s[j]}

\* makeOffset of the unit tests: absolute and relative fields agree.
makeOffset(left, top, width, height) ==
  getOffset([left |-> left, top |-> top, width |-> width, height |-> height],
            FALSE, 0, 0)

\* The calls of the unit tests of determineAutoPosition.
TestCalls ==
  {[precedence |-> <<"bottom", "top">>, target |-> makeOffset(400, 200, 100, 50),
    tipWidth |-> 200, tipHeight |-> 100, desired |-> "bottom"],
   [precedence |-> <<"bottom", "top">>, target |-> makeOffset(400, 750, 100, 50),
    tipWidth |-> 200, tipHeight |-> 100, desired |-> "bottom"],
   [precedence |-> <<"right", "left", "top", "bottom">>, target |-> makeOffset(950, 400, 100, 50),
    tipWidth |-> 100, tipHeight |-> 50, desired |-> "right"],
   [precedence |-> <<"top", "bottom", "left", "right">>, target |-> makeOffset(0, 0, 1200, 900),
    tipWidth |-> 200, tipHeight |-> 100, desired |-> "bottom"],
   [precedence |-> <<"bottom", "top">>, target |-> makeOffset(400, 200, 100, 50),
    tipWidth |-> 200, tipHeight |-> 100, desired |-> "bottom-right-aligned"]}

mockViewport == [width |-> 1000, height |-> 800]

\* CSS values of the six edge outputs.
Auto == [kind |-> "auto", v |-> 0]
Zero == [kind |-> "number", v |-> 0]
Px(n) == [kind |-> "px", v |-> n]
Percent(n) == [kind |-> "percent", v |-> n]

\* The edges as the Tooltip component constructs them.
InitialEdges ==
  [top |-> Auto, right |-> Auto, bottom |-> Auto, left |-> Auto,
   marginLeft |-> Zero, marginTop |-> Zero]

EdgesAre(e) ==
  /\ tooltipTop = e.top
  /\ tooltipRight = e.right
  /\ tooltipBottom = e.bottom
  /\ tooltipLeft = e.left
  /\ tooltipMarginLeft = e.marginLeft
  /\ tooltipMarginTop = e.marginTop

EdgesBecome(e) ==
  /\ tooltipTop' = e.top
  /\ tooltipRight' = e.right
  /\ tooltipBottom' = e.bottom
  /\ tooltipLeft' = e.left
  /\ tooltipMarginLeft' = e.marginLeft
  /\ tooltipMarginTop' = e.marginTop

---------------------------------------------------------------------------
(* Specification of determineAutoPosition: the inputs are drawn in the     *)
(* initial state, the action applies the function once.                    *)

InitPosition ==
  /\ pc = "init"
  /\ \/ /\ positionPrecedence \in PrecedenceLists
        /\ targetOffset \in GridOffsets
        /\ tooltipWidth \in TipWidths
        /\ tooltipHeight \in TipHeights
        /\ windowSize \in WindowSizes
        /\ desiredTooltipPosition \in TooltipPosition
     \/ \E c \in TestCalls :
          /\ positionPrecedence = c.precedence
          /\ targetOffset = c.target
          /\ tooltipWidth = c.tipWidth
          /\ tooltipHeight = c.tipHeight
          /\ windowSize = mockViewport
          /\ desiredTooltipPosition = c.desired
  /\ position = desiredTooltipPosition
  /\ showStepNumbers = FALSE
  /\ hintMode = FALSE
  /\ EdgesAre(InitialEdges)
  /\ runs = 0
  /\ NonPlacementAtRest

DetermineAutoPosition ==
  /\ pc = "init"
  /\ pc' = "positioned"
  /\ position' = determineAutoPosition(positionPrecedence, targetOffset, tooltipWidth,
                                       tooltipHeight, desiredTooltipPosition, windowSize)
  /\ UNCHANGED <<inputVars, edgeVars, runs, nonPlacementVars>>

NextPosition == DetermineAutoPosition

SpecPosition == InitPosition /\ [][NextPosition]_vars

---------------------------------------------------------------------------
(* Properties of determineAutoPosition (checked under SpecPosition)        *)

Positioned == pc = "positioned"

\* The base side of a position name.
BaseOf(p) == SplitDash(p)[1]

\* The alignment word of a position name, "none" for a bare base.
AlignOf(p) == IF Len(SplitDash(p)) = 3 THEN SplitDash(p)[2] ELSE "none"

\* Clearance of a side with the 12px buffer, measured on the anchor's
\* top/left/bottom/right fields.
Clear(side) ==
  CASE side = "bottom" -> targetOffset.bottom + tooltipHeight + 12 <= windowSize.height
    [] side = "top"    -> targetOffset.top - tooltipHeight - 12 >= 0
    [] side = "right"  -> targetOffset.right + tooltipWidth + 12 <= windowSize.width
    [] side = "left"   -> targetOffset.left - tooltipWidth - 12 >= 0
    [] OTHER           -> FALSE

\* The same clearance measured on the document-relative absolute* fields.
AbsoluteClear(side) ==
  CASE side = "bottom" -> targetOffset.absoluteBottom + tooltipHeight + 12 <= windowSize.height
    [] side = "top"    -> targetOffset.absoluteTop - tooltipHeight - 12 >= 0
    [] side = "right"  -> targetOffset.absoluteRight + tooltipWidth + 12 <= windowSize.width
    [] side = "left"   -> targetOffset.absoluteLeft - tooltipWidth - 12 >= 0
    [] OTHER           -> FALSE

\* The sides of the precedence list with clearance, in precedence order.
Survivors == SelectSeq(positionPrecedence, Clear)

\* Horizontal room around the anchor's centre for the buffered overlay.
SpaceLeft == targetOffset.left + targetOffset.width \div 2
SpaceRight == windowSize.width - SpaceLeft
HalfOverlay == (tooltipWidth + 12) \div 2
RoomLeft == SpaceLeft >= HalfOverlay + 8
RoomRight == SpaceRight >= HalfOverlay + 8
RoomMiddle == RoomLeft /\ RoomRight

\* An alignment was requested and it belongs to the base that was chosen.
RequestHonourable ==
  /\ desiredTooltipPosition \in TooltipAlignment
  /\ BaseOf(desiredTooltipPosition) = BaseOf(position)

\* C1: when a side of the precedence list survives the clearance filters, the
\* base of the result is the desired base if it survived, else the first
\* survivor in precedence order.
C1_FirstFit ==
  (Positioned /\ Len(Survivors) > 0) =>
    BaseOf(position) =
      IF Includes(Survivors, BaseOf(desiredTooltipPosition))
      THEN BaseOf(desiredTooltipPosition)
      ELSE Survivors[1]

\* C1 witness: several sides survive, the desired one does not, and the first
\* survivor (not the last) is the base of the result.
C1_Witness ==
  /\ Positioned
  /\ Len(Survivors) >= 2
  /\ BaseOf(desiredTooltipPosition) \in Sides
  /\ ~Includes(Survivors, BaseOf(desiredTooltipPosition))
  /\ Includes(positionPrecedence, BaseOf(desiredTooltipPosition))
  /\ BaseOf(position) = Survivors[1]
  /\ Survivors[1] # Survivors[Len(Survivors)]

\* C2: when no side of the precedence list survives, the result is "floating".
C2_FloatingFallback ==
  (Positioned /\ Len(Survivors) = 0) => position = "floating"

\* C2 witness: all four sides were candidates, none survived, a side was
\* desired, and the result is "floating".
C2_Witness ==
  /\ Positioned
  /\ Len(positionPrecedence) = 4
  /\ Len(Survivors) = 0
  /\ desiredTooltipPosition \in TooltipAlignment
  /\ position = "floating"

\* C3 (as claimed): the sides that survive the filters are exactly the sides of
\* the precedence list with clearance measured on the absolute* fields.
C3_AbsoluteFilters ==
  Positioned =>
    possible(positionPrecedence, targetOffset, tooltipWidth + PositionBuffer,
             tooltipHeight + PositionBuffer, windowSize.width, windowSize.height)
      = SelectSeq(positionPrecedence, AbsoluteClear)

\* C4 (as claimed): clearance on the desired side gives the desired base, for
\* every precedence list.  Clearance is required in both measures.
C4_DesiredWinsAnyPrecedence ==
  (/\ Positioned
   /\ BaseOf(desiredTooltipPosition) \in Sides
   /\ Clear(BaseOf(desiredTooltipPosition))
   /\ AbsoluteClear(BaseOf(desiredTooltipPosition)))
    => BaseOf(position) = BaseOf(desiredTooltipPosition)

\* C4 (amended): clearance on the desired side, measured on the anchor's
\* top/left/bottom/right, gives the desired base for every precedence list that
\* contains the desired side.
C4_DesiredWinsIfListed ==
  (/\ Positioned
   /\ BaseOf(desiredTooltipPosition) \in Sides
   /\ Clear(BaseOf(desiredTooltipPosition))
   /\ Includes(positionPrecedence, BaseOf(desiredTooltipPosition)))
    => BaseOf(position) = BaseOf(desiredTooltipPosition)

\* C4 witness: the desired side is not first in the list, another side with
\* clearance precedes it, and the desired base is chosen.
C4_Witness ==
  /\ Positioned
  /\ BaseOf(desiredTooltipPosition) \in Sides
  /\ Len(Survivors) >= 2
  /\ Includes(Survivors, BaseOf(desiredTooltipPosition))
  /\ Survivors[1] # BaseOf(desiredTooltipPosition)
  /\ BaseOf(position) = BaseOf(desiredTooltipPosition)

\* Fit of a requested alignment in the sense of the claim: middle needs half
\* the overlay plus margin on each side of the centre, left (right) needs the
\* full overlay plus margin on its open side, the right (left).
RequestFits ==
  CASE AlignOf(desiredTooltipPosition) = "middle" -> RoomMiddle
    [] AlignOf(desiredTooltipPosition) = "left"   ->
         SpaceRight >= tooltipWidth + 12 + 8
    [] AlignOf(desiredTooltipPosition) = "right"  ->
         SpaceLeft >= tooltipWidth + 12 + 8
    [] OTHER -> FALSE

\* C5 (as claimed): a requested alignment of the chosen base is returned if and
\* only if it fits.
C5_RequestedIffFits ==
  (Positioned /\ RequestHonourable) =>
    (position = desiredTooltipPosition <=> RequestFits)

\* C5 (amended): a requested alignment of the chosen base is returned, whether
\* it fits or not.
C5_RequestedAlwaysReturned ==
  (Positioned /\ RequestHonourable) => position = desiredTooltipPosition

\* C5 witness: the requested middle alignment has no room on either side of the
\* anchor's centre and is returned all the same.
C5_Witness ==
  /\ Positioned
  /\ RequestHonourable
  /\ AlignOf(desiredTooltipPosition) = "middle"
  /\ ~RoomLeft
  /\ ~RoomRight
  /\ position = desiredTooltipPosition

\* The automatic choice applies: the base is top or bottom and no alignment of
\* that base was requested.
AutomaticAlignment ==
  /\ Positioned
  /\ BaseOf(position) \in {"top", "bottom"}
  /\ ~RequestHonourable

\* C6 (as claimed): among the alignments that fit, middle is preferred, then
\* right, then left; middle when none fits.
C6_MiddleRightLeft ==
  AutomaticAlignment =>
    AlignOf(position) =
      IF RoomMiddle THEN "middle"
      ELSE IF RoomRight THEN "right"
      ELSE IF RoomLeft THEN "left"
      ELSE "middle"

\* C6 (amended): among the alignments that fit, left is preferred, then middle,
\* then right (the order of the candidate list); middle when none fits.
C6_LeftMiddleRight ==
  AutomaticAlignment =>
    AlignOf(position) =
      IF RoomLeft THEN "left"
      ELSE IF RoomMiddle THEN "middle"
      ELSE IF RoomRight THEN "right"
      ELSE "middle"

\* C6 witness: no alignment fits and the middle alignment of the base results.
C6_Witness ==
  /\ AutomaticAlignment
  /\ ~RoomLeft
  /\ ~RoomRight
  /\ AlignOf(position) = "middle"

\* The first two calls of the unit tests.
IsTestCall(top, desired) ==
  /\ windowSize = mockViewport
  /\ targetOffset = makeOffset(400, top, 100, 50)
  /\ tooltipWidth = 200
  /\ tooltipHeight = 100
  /\ positionPrecedence = <<"bottom", "top">>
  /\ desiredTooltipPosition = desired

\* C7: a desired position that names only a base, a top or bottom base chosen
\* and room for every alignment give the left-aligned variant of that base; the
\* two test calls give bottom-left-aligned and top-left-aligned.
C7_LeftAlignedWhenAllFit ==
  /\ (/\ Positioned
      /\ desiredTooltipPosition \in TooltipBasePosition
      /\ BaseOf(position) \in {"top", "bottom"}
      /\ RoomMiddle)
       => (AlignOf(position) = "left" /\ position \in TooltipAlignment)
  /\ (Positioned /\ IsTestCall(200, "bottom")) => position = "bottom-left-aligned"
  /\ (Positioned /\ IsTestCall(750, "bottom")) => position = "top-left-aligned"

\* C7 witness: the second test call, where bottom is filtered out.
C7_Witness ==
  /\ Positioned
  /\ IsTestCall(750, "bottom")
  /\ RoomMiddle
  /\ position = "top-left-aligned"

---------------------------------------------------------------------------
(* tooltip.ts: checkRight, alignTooltip                                    *)

\* The distance kept between the anchor and the overlay.
TooltipGap == 20

\* The template `-${n}px`: a negative n gives "--Npx", which is no CSS length.
NegPx(n) == IF n >= 0 THEN Px(0 - n) ELSE [kind |-> "invalid", v |-> n]

\* const tooltipBottomOverflow = dom.derive(...)
tooltipBottomOverflow(target, tipHeight, window) ==
  target.top + tipHeight > window.height

\* checkRight: the new value of tooltipLeft (tooltipLeftVal is the value the
\* state holds when checkRight is called; the code does not read it).
checkRight(target, window, tooltipLayerStyleLeft, tipWidth, tooltipLeftVal) ==
  IF target.left + tooltipLayerStyleLeft + tipWidth > window.width
  THEN Px(window.width - tipWidth - target.left)
  ELSE Px(tooltipLayerStyleLeft)

\* case "top-right-aligned" / "bottom-right-aligned": the horizontal part.
rightAligned(target, tipWidth, e) ==
  IF target.left + target.width - tipWidth < 0
  THEN [e EXCEPT !.left = Px(0)]
  ELSE [e EXCEPT !.right = Px(0)]

\* case "top-middle-aligned" / "bottom-middle-aligned": the horizontal part.
middleAligned(target, window, tipWidth, hint, e) ==
  LET centred == target.width \div 2 - tipWidth \div 2
      tooltipLayerStyleLeftRight == IF hint THEN centred + 5 ELSE centred
      overflowLeft  == target.left + tooltipLayerStyleLeftRight < 0
      overflowRight == target.left + tooltipLayerStyleLeftRight + tipWidth > window.width
  IN  IF overflowLeft THEN [e EXCEPT !.left = Px(0)]
      ELSE IF overflowRight THEN [e EXCEPT !.left = Px(window.width - tipWidth - target.left)]
      ELSE [e EXCEPT !.left = Px(tooltipLayerStyleLeftRight)]

\* The switch of alignTooltip, applied to the edges e.
assignEdges(pos, target, window, tipWidth, tipHeight, overflow, stepNumbers, hint, e) ==
  CASE pos = "top-right-aligned" ->
         [rightAligned(target, tipWidth, e) EXCEPT !.bottom = Px(target.height + TooltipGap)]
    [] pos = "top-middle-aligned" ->
         [middleAligned(target, window, tipWidth, hint, e)
            EXCEPT !.bottom = Px(target.height + TooltipGap)]
    [] pos \in {"top-left-aligned", "top"} ->
         [e EXCEPT !.left = checkRight(target, window, IF hint THEN 0 ELSE 15, tipWidth, e.left),
                   !.bottom = Px(target.height + TooltipGap)]
    [] pos = "right" ->
         [e EXCEPT !.left = Px(target.width + TooltipGap),
                   !.top = IF overflow THEN NegPx(tipHeight - target.height - TooltipGap) ELSE @]
    [] pos = "left" ->
         [e EXCEPT !.top = IF overflow THEN NegPx(tipHeight - target.height - TooltipGap)
                           ELSE IF ~hint /\ stepNumbers THEN Px(15) ELSE @,
                   !.right = Px(target.width + TooltipGap)]
    [] pos = "floating" ->
         [e EXCEPT !.left = Percent(50), !.top = Percent(50),
                   !.marginLeft = NegPx(tipWidth \div 2),
                   !.marginTop = NegPx(tipHeight \div 2)]
    [] pos = "bottom-right-aligned" ->
         [rightAligned(target, tipWidth, e) EXCEPT !.top = Px(target.height + TooltipGap)]
    [] pos = "bottom-middle-aligned" ->
         [middleAligned(target, window, tipWidth, hint, e)
            EXCEPT !.top = Px(target.height + TooltipGap)]
    [] pos = "bottom-left-aligned" ->
         [e EXCEPT !.left = checkRight(target, window, 0, tipWidth, e.left),
                   !.top = Px(target.height + TooltipGap)]
    [] OTHER ->
         [e EXCEPT !.left = checkRight(target, window, 0, tipWidth, e.left),
                   !.top = Px(target.height + TooltipGap)]

\* A variant that does not reset the edges and adds the new left offset to the
\* one the state already holds.
alignTooltipShifting(pos, target, window, tipWidth, tipHeight, overflow, stepNumbers, hint, edges) ==
  LET e1 == assignEdges(pos, target, window, tipWidth, tipHeight, overflow,
                        stepNumbers, hint, edges)
  IN  IF e1.left.kind = "px" /\ edges.left.kind = "px"
      THEN [e1 EXCEPT !.left = Px(edges.left.v + e1.left.v)]
      ELSE e1

\* alignTooltip: the six outputs are reset, then the switch assigns them.
\* edges are the values the six states hold before the call.
alignTooltip(pos, target, window, tipWidth, tipHeight, overflow, stepNumbers, hint, edges) ==
  LET reset == [top |-> Auto, bottom |-> Auto, left |-> Auto, right |-> Auto,
                marginLeft |-> Zero, marginTop |-> Zero]
  IN  assignEdges(pos, target, window, tipWidth, tipHeight, overflow,
                  stepNumbers, hint, reset)

---------------------------------------------------------------------------
(* Specification of alignTooltip: the inputs and the values the six        *)
(* outputs hold beforehand are drawn in the initial state; the action runs *)
(* alignTooltip on them, at most MaxRuns times.                            *)

MaxRuns == 2

\* Anchors of the grid in normal flow.
AlignOffsets == {o \in GridOffsets : o.absoluteTop = o.top /\ o.absoluteLeft = o.left}

\* Overlay widths: those of the placement inputs and one wider than the window.
AlignTipWidths == TipWidths \cup {60}

\* The position whose alignment left the edges as they are before the first
\* run; "none" for a freshly constructed tooltip.
PriorPositions == {"none", "floating", "left", "top-right-aligned"}

CurrentEdges ==
  [top |-> tooltipTop, right |-> tooltipRight, bottom |-> tooltipBottom,
   left |-> tooltipLeft, marginLeft |-> tooltipMarginLeft,
   marginTop |-> tooltipMarginTop]

InitAlign ==
  /\ pc = "init"
  /\ positionPrecedence = <<>>
  /\ targetOffset \in AlignOffsets
  /\ tooltipWidth \in AlignTipWidths
  /\ tooltipHeight \in TipHeights
  /\ windowSize \in WindowSizes
  /\ desiredTooltipPosition \in TooltipPosition
  /\ position = desiredTooltipPosition
  /\ showStepNumbers \in BOOLEAN
  /\ hintMode \in BOOLEAN
  /\ \E prior \in PriorPositions :
       EdgesAre(IF prior = "none" THEN InitialEdges
                ELSE alignTooltip(prior, targetOffset, windowSize, tooltipWidth,
                                  tooltipHeight,
                                  tooltipBottomOverflow(targetOffset, tooltipHeight, windowSize),
                                  showStepNumbers, hintMode, InitialEdges))
  /\ runs = 0
  /\ NonPlacementAtRest

AlignTooltip ==
  /\ runs < MaxRuns
  /\ pc' = "aligned"
  /\ runs' = runs + 1
  /\ EdgesBecome(alignTooltip(position, targetOffset, windowSize, tooltipWidth, tooltipHeight,
                              tooltipBottomOverflow(targetOffset, tooltipHeight, windowSize),
                              showStepNumbers, hintMode, CurrentEdges))
  /\ UNCHANGED <<inputVars, position, nonPlacementVars>>

NextAlign == AlignTooltip

SpecAlign == InitAlign /\ [][NextAlign]_vars

---------------------------------------------------------------------------
(* Properties of alignTooltip (checked under SpecAlign)                    *)

Aligned == pc = "aligned"

\* The overlay box the six edges give, in the coordinates of checkRight's
\* test: the edges are offsets from the anchor box, whose left and top are
\* targetOffset.left and targetOffset.top; an edge that is no length leaves
\* the overlay at the anchor's left (top) edge.
BoxLeft ==
  IF tooltipLeft.kind = "px" THEN targetOffset.left + tooltipLeft.v
  ELSE IF tooltipRight.kind = "px"
       THEN targetOffset.left + targetOffset.width - tooltipRight.v - tooltipWidth
       ELSE targetOffset.left

BoxRight == BoxLeft + tooltipWidth

BoxTop ==
  IF tooltipTop.kind = "px" THEN targetOffset.top + tooltipTop.v
  ELSE IF tooltipBottom.kind = "px"
       THEN targetOffset.top + targetOffset.height - tooltipBottom.v - tooltipHeight
       ELSE targetOffset.top

BoxBottom == BoxTop + tooltipHeight

\* The position is one determineAutoPosition chooses for this anchor, overlay
\* and window (asked for that position, with its base as the only candidate).
ChosenPosition ==
  position = determineAutoPosition(<<BaseOf(position)>>, targetOffset, tooltipWidth,
                                   tooltipHeight, position, windowSize)

\* C8 (as claimed): for a chosen non-floating position the overlay box lies
\* inside the viewport.
C8_BoxInsideViewport ==
  (Aligned /\ position # "floating" /\ ChosenPosition) =>
    /\ BoxLeft >= 0
    /\ BoxRight <= windowSize.width
    /\ BoxTop >= 0
    /\ BoxBottom <= windowSize.height

\* The left edge the alignment rules give before any clamp.
NaturalLeft ==
  targetOffset.left +
    CASE AlignOf(position) = "right"  -> targetOffset.width - tooltipWidth
      [] AlignOf(position) = "middle" ->
           targetOffset.width \div 2 - tooltipWidth \div 2 + (IF hintMode THEN 5 ELSE 0)
      [] OTHER ->
           IF position \in {"top", "top-left-aligned"} /\ ~hintMode THEN 15 ELSE 0

\* The left edge after the clamp of the claim.
ClampedLeft ==
  IF NaturalLeft < 0 THEN 0
  ELSE IF NaturalLeft + tooltipWidth > windowSize.width
       THEN (IF windowSize.width - tooltipWidth < 0 THEN 0
             ELSE windowSize.width - tooltipWidth)
       ELSE NaturalLeft

\* C9 (as claimed): for top and bottom positions the left edge is the clamped
\* one: moved left just enough when the right edge would pass the viewport
\* width, never below 0, and at 0 with no right-based offset when the left edge
\* would be below 0.
C9_HorizontalClamp ==
  (Aligned /\ BaseOf(position) \in {"top", "bottom"}) =>
    /\ BoxLeft = ClampedLeft
    /\ NaturalLeft < 0 => tooltipRight = Auto

\* C10: a second run of alignTooltip on the same inputs leaves the six outputs
\* as the first run left them.
C10_Idempotent == [][Aligned => edgeVars' = edgeVars]_vars

\* C10 witness: the outputs held other values before the first run, the first
\* run changed them, and a second run has happened.
C10_Witness ==
  /\ Aligned
  /\ runs = 2
  /\ tooltipLeft.kind = "px"
  /\ tooltipLeft.v # 0
  /\ tooltipRight = Auto
  /\ tooltipMarginLeft = Zero

---------------------------------------------------------------------------
(* The tour step controller: nextStep and previousStep of steps.ts, the    *)
(* button handlers of TourRoot.ts, and the methods of Tour they call.      *)
(* A step is identified by its index in tour._steps.                       *)

\* tour.getStep(i): the step at index i of n steps, or Undefined.
getStep(n, i) == IF i >= 0 /\ i < n THEN i ELSE Undefined

\* tour.isEnd(): the current index is past the last step.
isEnd(cur, n) == cur # Undefined /\ cur >= n

\* tour.isLastStep(): the current index is the last one.
isLastStep(cur, n) == cur # Undefined /\ cur = n - 1

\* tour.incrementCurrentStep(): 0 from no current step, else one more;
\* the direction becomes forward.
incrementCurrentStep(cur) ==
  [currentStep |-> IF cur = Undefined THEN 0 ELSE cur + 1, direction |-> "forward"]

\* tour.decrementCurrentStep(): one less when there is a step before the
\* current one, and the direction becomes backward; else nothing changes.
decrementCurrentStep(cur, dir) ==
  IF cur # Undefined /\ cur > 0
  THEN [currentStep |-> cur - 1, direction |-> "backward"]
  ELSE [currentStep |-> cur, direction |-> dir]

\* nextStep, up to its await: the index it targets.
nextStepIndex(cur) == IF cur = Undefined THEN 0 ELSE cur + 1

\* previousStep, up to its await: FALSE when it returns at once.
previousStepValid(cur) == ~(cur = Undefined \/ cur <= 0)

\* previousStep that targets the current step again.
previousStepIndexSame(cur) == cur

\* previousStep, up to its await: the index it targets.
previousStepIndex(cur) == cur - 1

\* What the hook of a call can do: resolve to something other than false,
\* resolve to false, or throw / reject.
HookOutcomes == {"continue", "false", "throw"}

\* The effect of the rest of a call once its hook has settled:
\*   currentStep, direction  the tour's state afterwards
\*   result                  what the caller gets ("error": the rejection)
\*   shown                   the step passed to showElement, or Undefined
\*   completed, exited       whether complete("end") and exit() were invoked
Aborted(cur, dir, res) ==
  [currentStep |-> cur, direction |-> dir, result |-> res, shown |-> Undefined,
   completed |-> FALSE, exited |-> FALSE]

\* nextStep that commits whatever the hook resolved to.
nextStepResumeNoVeto(outcome, cur, dir, n, target) ==
  IF outcome = "throw" THEN Aborted(cur, dir, "error")
  ELSE LET inc == incrementCurrentStep(cur)
       IN  IF isEnd(inc.currentStep, n)
           THEN [currentStep |-> Undefined, direction |-> inc.direction, result |-> "false",
                 shown |-> Undefined, completed |-> TRUE, exited |-> TRUE]
           ELSE [currentStep |-> inc.currentStep, direction |-> inc.direction,
                 result |-> "true", shown |-> target, completed |-> FALSE, exited |-> FALSE]

\* nextStep that ends the tour as soon as the last step is reached.
nextStepResumeEndsAtLast(outcome, cur, dir, n, target) ==
  IF outcome = "throw" THEN Aborted(cur, dir, "error")
  ELSE IF outcome = "false" THEN Aborted(cur, dir, "false")
  ELSE LET inc == incrementCurrentStep(cur)
       IN  IF isLastStep(inc.currentStep, n) \/ isEnd(inc.currentStep, n)
           THEN [currentStep |-> Undefined, direction |-> inc.direction, result |-> "false",
                 shown |-> Undefined, completed |-> TRUE, exited |-> TRUE]
           ELSE [currentStep |-> inc.currentStep, direction |-> inc.direction,
                 result |-> "true", shown |-> target, completed |-> FALSE, exited |-> FALSE]

\* nextStep after "await beforeChange": a throw leaves the function, false
\* returns false; otherwise the index is incremented, and either the tour
\* is past its end (complete("end"), exit, false) or the target is shown.
nextStepResume(outcome, cur, dir, n, target) ==
  IF outcome = "throw" THEN Aborted(cur, dir, "error")
  ELSE IF outcome = "false" THEN Aborted(cur, dir, "false")
  ELSE LET inc == incrementCurrentStep(cur)
       IN  IF isEnd(inc.currentStep, n)
           THEN [currentStep |-> Undefined, direction |-> inc.direction, result |-> "false",
                 shown |-> Undefined, completed |-> TRUE, exited |-> TRUE]
           ELSE [currentStep |-> inc.currentStep, direction |-> inc.direction,
                 result |-> "true", shown |-> target, completed |-> FALSE, exited |-> FALSE]

\* previousStep that catches the hook's error and goes on as if it were false.
previousStepResumeSwallow(outcome, cur, dir, target) ==
  IF outcome = "throw" \/ outcome = "false" THEN Aborted(cur, dir, "false")
  ELSE LET dec == decrementCurrentStep(cur, dir)
       IN  [currentStep |-> dec.currentStep, direction |-> dec.direction,
            result |-> "true", shown |-> target, completed |-> FALSE, exited |-> FALSE]

\* previousStep after "await beforeChange".
previousStepResume(outcome, cur, dir, target) ==
  IF outcome = "throw" THEN Aborted(cur, dir, "error")
  ELSE IF outcome = "false" THEN Aborted(cur, dir, "false")
  ELSE LET dec == decrementCurrentStep(cur, dir)
       IN  [currentStep |-> dec.currentStep, direction |-> dec.direction,
            result |-> "true", shown |-> target, completed |-> FALSE, exited |-> FALSE]

\* C35: the base side of the position determineAutoPosition returns is
\* "floating" or a side of the precedence list it was given, and the
\* position is never bare "top" or bare "bottom"; so for both definitions
\* of the function in tooltipPosition.ts.
C35_BaseFromPrecedence ==
  Positioned =>
    \A p \in {position} \cup
             {determineAutoPositionFirst(positionPrecedence, targetOffset, tooltipWidth,
                                         tooltipHeight, desiredTooltipPosition, windowSize, w) :
                w \in ScreenWidths} :
      /\ BaseOf(p) = "floating" \/ Includes(positionPrecedence, BaseOf(p))
      /\ p \notin {"top", "bottom"}

\* The desired side has clearance and is not in the precedence list; a
\* listed side was chosen.
C35_Witness ==
  /\ Positioned
  /\ desiredTooltipPosition = "left"
  /\ Clear("left")
  /\ ~Includes(positionPrecedence, "left")
  /\ BaseOf(position) = "top"
  /\ position # "top"

---------------------------------------------------------------------------
(* Specification of the step controller.  A call of nextStep/previousStep  *)
(* runs to its await in one step and resumes in a later one; in between,   *)
(* clicks, API calls and exit() of the same tour can run, because nothing  *)
(* in steps.ts or TourRoot.ts holds them back.  The callbacks awaited      *)
(* after the hook (complete, exit, showElement) are taken as immediate.    *)

MaxSteps == 3
MaxNav == 4
MaxExits == 2

\* The placement variables, held at rest by the other specifications.
PlacementAtRest ==
  /\ pc = "init"
  /\ positionPrecedence = <<>>
  /\ targetOffset = makeOffset(0, 0, 8, 8)
  /\ tooltipWidth = 4
  /\ tooltipHeight = 4
  /\ windowSize = [width |-> 48, height |-> 40]
  /\ desiredTooltipPosition = "bottom"
  /\ position = "bottom"
  /\ showStepNumbers = FALSE
  /\ hintMode = FALSE
  /\ EdgesAre(InitialEdges)
  /\ runs = 0

InitTour ==
  /\ OverlayAtRest
  /\ SkipAtRest
  /\ PlacementAtRest
  /\ StepListAtRest
  /\ CampaignAtRest
  /\ ManagerAtRest
  /\ OffsetAtRest
  /\ RefreshAtRest
  /\ \E n \in 0..MaxSteps : TourInitial(n)

\* A call of nextStep in slot c, up to its await; as an action, the call
\* made through the API (as the campaign manager's autoAdvance timer does).
NextStepCall(c) ==
  /\ navPc[c] # "awaiting"
  /\ navCount < MaxNav
  /\ navCount' = navCount + 1
  /\ navId' = [navId EXCEPT ![c] = navCount + 1]
  /\ navKind' = [navKind EXCEPT ![c] = "next"]
  /\ navHook' = [navHook EXCEPT ![c] = "none"]
  /\ navStale' = [navStale EXCEPT ![c] = FALSE]
  /\ LET target == nextStepIndex(currentStep)
     IN  IF getStep(stepCount, target) = Undefined
         THEN /\ navPc' = [navPc EXCEPT ![c] = "returned"]
              /\ navResult' = [navResult EXCEPT ![c] = "false"]
              /\ navTarget' = [navTarget EXCEPT ![c] = Undefined]
              /\ hookCalls' = hookCalls
         ELSE /\ navPc' = [navPc EXCEPT ![c] = "awaiting"]
              /\ navResult' = [navResult EXCEPT ![c] = "none"]
              /\ navTarget' = [navTarget EXCEPT ![c] = target]
              /\ hookCalls' = hookCalls + 1
  /\ UNCHANGED <<nonTourVars, stepCount, currentStep, direction, showCalls, lastShown,
                 completeCalls, completeReason, skipCalls, exitCalls>>

\* A call of previousStep in slot c, up to its await; as an action, the
\* call made through the API.
PreviousStepCall(c) ==
  /\ navPc[c] # "awaiting"
  /\ navCount < MaxNav
  /\ navCount' = navCount + 1
  /\ navId' = [navId EXCEPT ![c] = navCount + 1]
  /\ navKind' = [navKind EXCEPT ![c] = "prev"]
  /\ navHook' = [navHook EXCEPT ![c] = "none"]
  /\ navStale' = [navStale EXCEPT ![c] = FALSE]
  /\ IF /\ previousStepValid(currentStep)
        /\ getStep(stepCount, previousStepIndex(currentStep)) # Undefined
     THEN /\ navPc' = [navPc EXCEPT ![c] = "awaiting"]
          /\ navResult' = [navResult EXCEPT ![c] = "none"]
          /\ navTarget' = [navTarget EXCEPT ![c] = previousStepIndex(currentStep)]
          /\ hookCalls' = hookCalls + 1
     ELSE /\ navPc' = [navPc EXCEPT ![c] = "returned"]
          /\ navResult' = [navResult EXCEPT ![c] = "false"]
          /\ navTarget' = [navTarget EXCEPT ![c] = Undefined]
          /\ hookCalls' = hookCalls
  /\ UNCHANGED <<nonTourVars, stepCount, currentStep, direction, showCalls, lastShown,
                 completeCalls, completeReason, skipCalls, exitCalls>>

\* The tour's state and callbacks after the rest of a call, r, has run.
Resumed(c, outcome, r) ==
  /\ navPc' = [navPc EXCEPT ![c] = "returned"]
  /\ navHook' = [navHook EXCEPT ![c] = outcome]
  /\ navResult' = [navResult EXCEPT ![c] = r.result]
  /\ currentStep' = r.currentStep
  /\ direction' = r.direction
  /\ showCalls' = IF r.shown # Undefined THEN showCalls + 1 ELSE showCalls
  /\ lastShown' = IF r.shown # Undefined THEN r.shown ELSE lastShown
  /\ completeCalls' = IF r.completed THEN completeCalls + 1 ELSE completeCalls
  /\ completeReason' = IF r.completed THEN "end" ELSE completeReason
  /\ exitCalls' = IF r.exited THEN exitCalls + 1 ELSE exitCalls
  /\ navStale' = IF r.exited
                 THEN [d \in Calls |-> navStale[d] \/ (d # c /\ navPc[d] = "awaiting")]
                 ELSE navStale
  /\ UNCHANGED <<nonTourVars, stepCount, navKind, navTarget, navId, navCount,
                 hookCalls, skipCalls>>

\* The hook of a pending nextStep settles and the call runs to its end.
NextStepResume(c) ==
  /\ navPc[c] = "awaiting"
  /\ navKind[c] = "next"
  /\ \E outcome \in HookOutcomes :
       Resumed(c, outcome, nextStepResume(outcome, currentStep, direction, stepCount, navTarget[c]))

\* The hook of a pending previousStep settles and the call runs to its end.
PreviousStepResume(c) ==
  /\ navPc[c] = "awaiting"
  /\ navKind[c] = "prev"
  /\ \E outcome \in HookOutcomes :
       Resumed(c, outcome, previousStepResume(outcome, currentStep, direction, navTarget[c]))

\* tour.exit() leaving the Active state: no current step, exit callback.
ExitTour ==
  /\ currentStep' = Undefined
  /\ exitCalls' = exitCalls + 1
  /\ navStale' = [d \in Calls |-> navStale[d] \/ navPc[d] = "awaiting"]

\* tour.exit() called through the API; from Idle it does nothing.
Exit ==
  /\ currentStep # Undefined
  /\ exitCalls < MaxExits
  /\ ExitTour
  /\ UNCHANGED <<nonTourVars, stepCount, direction, navPc, navKind, navTarget, navResult,
                 navId, navHook, navCount, hookCalls, showCalls, lastShown, completeCalls,
                 completeReason, skipCalls>>

\* TourRoot's next button: nextStep unless the last step is current, where
\* the button is the done button: complete("done"), then exit.
OnNextClick(c) ==
  /\ currentStep # Undefined
  /\ IF ~isLastStep(currentStep, stepCount)
     THEN NextStepCall(c)
     ELSE /\ exitCalls < MaxExits
          /\ completeCalls' = completeCalls + 1
          /\ completeReason' = "done"
          /\ ExitTour
          /\ UNCHANGED <<nonTourVars, stepCount, direction, navPc, navKind, navTarget,
                         navResult, navId, navHook, navCount, hookCalls, showCalls,
                         lastShown, skipCalls>>

\* TourRoot's previous button.
OnPrevClick(c) ==
  /\ currentStep # Undefined
  /\ currentStep > 0
  /\ PreviousStepCall(c)

\* TourRoot's skip button: complete("skip") on the last step, then the skip
\* callback, then exit.
OnSkipClick ==
  /\ currentStep # Undefined
  /\ exitCalls < MaxExits
  /\ completeCalls' = IF isLastStep(currentStep, stepCount) THEN completeCalls + 1 ELSE completeCalls
  /\ completeReason' = IF isLastStep(currentStep, stepCount) THEN "skip" ELSE completeReason
  /\ skipCalls' = skipCalls + 1
  /\ ExitTour
  /\ UNCHANGED <<nonTourVars, stepCount, direction, navPc, navKind, navTarget, navResult,
                 navId, navHook, navCount, hookCalls, showCalls, lastShown>>

NextTour ==
  \/ \E c \in Calls : NextStepCall(c)
  \/ \E c \in Calls : PreviousStepCall(c)
  \/ \E c \in Calls : NextStepResume(c)
  \/ \E c \in Calls : PreviousStepResume(c)
  \/ \E c \in Calls : OnNextClick(c)
  \/ \E c \in Calls : OnPrevClick(c)
  \/ OnSkipClick
  \/ Exit

SpecTour == InitTour /\ [][NextTour]_vars

---------------------------------------------------------------------------
(* Properties of the step controller (checked under SpecTour)              *)

\* This step is the call of nextStep ("next") or previousStep ("prev") in slot c.
Began(c, kind) ==
  /\ navCount' = navCount + 1
  /\ navId'[c] = navCount + 1
  /\ navKind'[c] = kind

\* This step is the rest of the call in slot c, run after its hook settled.
Settled(c) == navPc[c] = "awaiting" /\ navPc'[c] = "returned"

\* This step is a button handler or exit(), not a step of a navigation call.
NoNavigationStep == navPc' = navPc /\ navCount' = navCount

\* C11: in a tour of n steps whose current index is n-1, nextStep does not
\* invoke the before-change hook, invokes the complete callback with reason
\* "end", and leaves the controller Idle.
C11_AdvancePastLastCompletes ==
  [][\A c \in Calls :
       (Began(c, "next") /\ stepCount >= 1 /\ currentStep = stepCount - 1)
         => /\ hookCalls' = hookCalls
            /\ completeCalls' = completeCalls + 1
            /\ completeReason' = "end"
            /\ currentStep' = Undefined]_vars

C13_ThrowAborts ==
  [][\A c \in Calls :
       (Settled(c) /\ navHook'[c] = "throw")
         => /\ currentStep' = currentStep
            /\ direction' = direction
            /\ showCalls' = showCalls
            /\ lastShown' = lastShown
            /\ completeCalls' = completeCalls
            /\ exitCalls' = exitCalls
            /\ navResult'[c] = "error"]_vars

\* The hooks of a nextStep and of a previousStep have both thrown.
C13_Witness ==
  \E c, d \in Calls :
    /\ navPc[c] = "returned" /\ navKind[c] = "next" /\ navHook[c] = "throw"
    /\ navPc[d] = "returned" /\ navKind[d] = "prev" /\ navHook[d] = "throw"

\* C14: navigation requests on one tour are serialized: no two calls are
\* awaiting their before-change hook at once.
C14_Serialized ==
  \A c, d \in Calls : c # d => ~(navPc[c] = "awaiting" /\ navPc[d] = "awaiting")

\* C15: when exit() ran while the hook of a call was pending and the tour
\* is still Idle as the hook resolves non-false, the call is discarded: the
\* tour stays Idle, no step is shown and no complete callback fires.
C15_StaleDiscarded ==
  [][\A c \in Calls :
       (Settled(c) /\ navStale[c] /\ currentStep = Undefined /\ navHook'[c] = "continue")
         => /\ currentStep' = Undefined
            /\ showCalls' = showCalls
            /\ completeCalls' = completeCalls]_vars

\* C16: a nextStep that commits onto the last step (index n-1) leaves the
\* tour Active at n-1 and returns true, invoking neither the complete
\* callback nor exit; complete and exit run only in the done and skip
\* handlers, in exit(), or in a nextStep that advances past the last step.
C16_LastStepStaysActive ==
  [][/\ \A c \in Calls :
          (/\ Settled(c) /\ navKind[c] = "next" /\ navHook'[c] = "continue"
           /\ nextStepIndex(currentStep) = stepCount - 1)
            => /\ currentStep' = stepCount - 1
               /\ navResult'[c] = "true"
               /\ completeCalls' = completeCalls
               /\ exitCalls' = exitCalls
     /\ (completeCalls' # completeCalls \/ exitCalls' # exitCalls)
          => \/ NoNavigationStep
             \/ \E c \in Calls : /\ Settled(c) /\ navKind[c] = "next"
                                 /\ nextStepIndex(currentStep) >= stepCount]_vars

\* A nextStep has committed onto the last of several steps, and neither
\* complete nor exit has ever run.
C16_Witness ==
  /\ stepCount >= 2
  /\ currentStep = stepCount - 1
  /\ completeCalls = 0
  /\ exitCalls = 0
  /\ \E c \in Calls : /\ navPc[c] = "returned" /\ navKind[c] = "next"
                      /\ navResult[c] = "true" /\ navTarget[c] = stepCount - 1

\* C17: previousStep called when the tour is Idle or at index 0 returns
\* false without invoking the hook and without changing index or direction;
\* otherwise it invokes the hook for index current-1 and, if the hook lets
\* it and the index is still the one it read, commits to that index with
\* direction backward and shows that step.
C17_PreviousStepGuard ==
  [][\A c \in Calls :
       /\ Began(c, "prev")
            => IF currentStep = Undefined \/ currentStep = 0
               THEN /\ navPc'[c] = "returned"
                    /\ navResult'[c] = "false"
                    /\ hookCalls' = hookCalls
                    /\ currentStep' = currentStep
                    /\ direction' = direction
               ELSE /\ navPc'[c] = "awaiting"
                    /\ navTarget'[c] = currentStep - 1
                    /\ hookCalls' = hookCalls + 1
                    /\ currentStep' = currentStep
                    /\ direction' = direction
       /\ (/\ Settled(c) /\ navKind[c] = "prev" /\ navHook'[c] = "continue"
           /\ currentStep = navTarget[c] + 1)
            => /\ currentStep' = navTarget[c]
               /\ direction' = "backward"
               /\ lastShown' = navTarget[c]
               /\ navResult'[c] = "true"]_vars

\* One previousStep has returned false at once at index 0, and another has
\* committed.
C17_Witness ==
  \E c, d \in Calls :
    /\ navPc[c] = "returned" /\ navKind[c] = "prev" /\ navHook[c] = "none"
    /\ navResult[c] = "false" /\ currentStep = 0
    /\ navPc[d] = "returned" /\ navKind[d] = "prev" /\ navResult[d] = "true"

\* C34: when a call of nextStep or previousStep returns true, the current
\* step index is the target index its before-change hook was given, and the
\* step handed to showElement is the step at the current index.
C34_ShownStepIsCurrent ==
  [][\A c \in Calls :
       (Settled(c) /\ navResult'[c] = "true")
         => /\ currentStep' = navTarget[c]
            /\ lastShown' = getStep(stepCount, currentStep')]_vars

\* C39: once the tour has exited or completed, the nextStep call made by
\* a pending autoAdvance timer invokes no before-change hook and returns at
\* once, leaving the tour without a current step and showing nothing.
C39_TimerAfterExitIgnored ==
  [][\A c \in Calls :
       (exitCalls > 0 /\ currentStep = Undefined /\ Began(c, "next"))
         => /\ hookCalls' = hookCalls
            /\ navPc'[c] = "returned"
            /\ currentStep' = Undefined
            /\ showCalls' = showCalls]_vars

---------------------------------------------------------------------------
(* fetchSteps (steps.ts), programmatic branch, and the position a Tooltip  *)
(* (tooltip.ts) holds for the step it is built for.                        *)

\* What a programmatic step can give as its element: nothing, null, a
\* selector that matches nothing, a selector that matches, an element.
ElementOptions == {"absent", "null", "selector-miss", "selector-hit", "node"}

\* What a programmatic step can give as its position.
PositionOptions == {"absent", "floating", "top", "bottom-right-aligned"}

StepOptions == [element : ElementOptions, position : PositionOptions]

\* The options tooltipPosition and positionPrecedence of the tour.
tooltipPositionOption == "bottom"

positionPrecedenceOption == <<"bottom", "top", "right", "left">>

\* step.element after the selector has been looked up:
\* queryElement(selector) || undefined.
queriedElement(el) ==
  CASE el = "selector-hit" -> "node"
    [] el = "selector-miss" -> "absent"
    [] OTHER -> el

\* One pass of the loop body for option opt when k steps are already kept.
\* A falsy element is replaced by tour.appendFloatingElement() and the
\* position by "floating".
fetchStep(opt, k) ==
  LET el == queriedElement(opt.element)
      anchorless == el = "absent" \/ el = "null"
  IN  [step |-> k + 1,
       element |-> IF anchorless THEN "floating-element" ELSE el,
       position |-> IF anchorless THEN "floating"
                    ELSE IF opt.position = "absent" THEN tooltipPositionOption
                    ELSE opt.position]

\* The steps in ascending order of their step number (steps.sort).
RECURSIVE insertByStep(_, _)
insertByStep(sorted, x) ==
  IF sorted = <<>> THEN <<x>>
  ELSE IF Head(sorted).step - x.step > 0 THEN <<x>> \o sorted
  ELSE <<Head(sorted)>> \o insertByStep(Tail(sorted), x)

RECURSIVE sortByStep(_)
sortByStep(steps) ==
  IF steps = <<>> THEN <<>>
  ELSE insertByStep(sortByStep(SubSeq(steps, 1, Len(steps) - 1)), steps[Len(steps)])

\* The loop over the options: a step is pushed unless its element is null.
RECURSIVE collectSteps(_, _)
collectSteps(options, kept) ==
  IF options = <<>> THEN kept
  ELSE LET step == fetchStep(Head(options), Len(kept))
       IN  collectSteps(Tail(options),
                        IF step.element # "null" THEN Append(kept, step) ELSE kept)

\* The programmatic branch, for a non-empty list of options.
programmaticSteps(options) == collectSteps(options, <<>>)

\* The declarative branch.  An element is [id, group, hidden, dataStep]:
\* its identity, its data-intro-group attribute ("" when it has none),
\* whether its style.display is "none", and parseInt of its data-step
\* attribute (0 when it has none).
\* The group test and the hidden test of the scan.
inScan(element, group) == ~(group # "" /\ element.group # group) /\ ~element.hidden

\* steps[i] = step on a sparse array: an entry is <<>> (undefined) or
\* <<step>>, and the array grows to index i.
setAt(steps, i, step) ==
  [k \in 1..(IF i > Len(steps) THEN i ELSE Len(steps)) |->
     IF k = i THEN <<step>> ELSE IF k <= Len(steps) THEN steps[k] ELSE <<>>]

newIntroStep(element) ==
  [step |-> element.dataStep, element |-> element.id, position |-> tooltipPositionOption]

\* The loop over the elements: acc is [steps, itemsWithoutStep].
RECURSIVE scanElements(_, _, _)
scanElements(elements, group, acc) ==
  IF elements = <<>> THEN acc
  ELSE LET element == Head(elements)
       IN  scanElements(Tail(elements), group,
             IF ~inScan(element, group) THEN acc
             ELSE IF element.dataStep > 0
               THEN [acc EXCEPT !.steps = setAt(@, element.dataStep, newIntroStep(element))]
               ELSE [acc EXCEPT !.itemsWithoutStep = Append(@, newIntroStep(element))])

\* A variant of the fill loop that puts the items without step after the
\* last numbered step.
RECURSIVE fillBlanksAtEnd(_, _, _)
fillBlanksAtEnd(steps, itemsWithoutStep, i) ==
  IF itemsWithoutStep = <<>> THEN steps
  ELSE fillBlanksAtEnd(setAt(steps, Len(steps) + 1,
                             [Head(itemsWithoutStep) EXCEPT !.step = Len(steps) + 1]),
                       Tail(itemsWithoutStep), i + 1)

\* The fill loop: the items without step go to the blanks, in order; i is
\* the position looked at (the loop's i + 1).
RECURSIVE fillBlanks(_, _, _)
fillBlanks(steps, itemsWithoutStep, i) ==
  IF itemsWithoutStep = <<>> THEN steps
  ELSE IF i > Len(steps) \/ steps[i] = <<>>
    THEN fillBlanks(setAt(steps, i, [Head(itemsWithoutStep) EXCEPT !.step = i]),
                    Tail(itemsWithoutStep), i + 1)
    ELSE fillBlanks(steps, itemsWithoutStep, i + 1)

declarativeSteps(elements, group) ==
  IF Len(elements) < 1 THEN <<>>
  ELSE LET acc == scanElements(elements, group, [steps |-> <<>>, itemsWithoutStep |-> <<>>])
       IN  fillBlanks(acc.steps, acc.itemsWithoutStep, 1)

\* steps.filter((n) => n) on the sparse array.
RECURSIVE filterDefined(_)
filterDefined(steps) ==
  IF steps = <<>> THEN <<>>
  ELSE Head(steps) \o filterDefined(Tail(steps))

\* fetchSteps: the branch taken, then the filter and the sort.
fetchSteps(options, elements, group) ==
  sortByStep(filterDefined(
    IF Len(options) > 0
      THEN [k \in 1..Len(programmaticSteps(options)) |-> <<programmaticSteps(options)[k]>>]
      ELSE declarativeSteps(elements, group)))

\* A Tooltip's auto-position derive that has no test for "floating".
tooltipPositionPassUnguarded(initialPosition, auto, precedence, target, tipWidth, tipHeight, window, current) ==
  IF auto /\ tipWidth # 0 /\ tipHeight # 0
  THEN determineAutoPosition(precedence, target, tipWidth, tipHeight, initialPosition, window)
  ELSE current

\* A Tooltip's auto-position derive: position.val after one run.
tooltipPositionPass(initialPosition, auto, precedence, target, tipWidth, tipHeight, window, current) ==
  IF initialPosition # "floating" /\ auto /\ tipWidth # 0 /\ tipHeight # 0
  THEN determineAutoPosition(precedence, target, tipWidth, tipHeight, initialPosition, window)
  ELSE current

---------------------------------------------------------------------------
(* Specification of the step list: the programmatic options are drawn in   *)
(* the initial state; fetchSteps runs once; a Tooltip is then built for a  *)
(* step and re-runs its placement on refreshed geometry.                   *)

MaxStepOptions == 2
MaxPasses == 3

RECURSIVE SeqsUpTo(_, _)
SeqsUpTo(S, n) ==
  IF n = 0 THEN {<<>>}
  ELSE LET shorter == SeqsUpTo(S, n - 1)
       IN  shorter \cup {Append(q, x) : q \in {t \in shorter : Len(t) = n - 1}, x \in S}

\* Anchor, window and overlay size a placement pass can meet: the nominal
\* overlay size before the overlay is measured, a measured overlay with
\* room around the anchor, an anchor that fills the window, an overlay not
\* yet laid out.
PassGeometries ==
  {[target |-> makeOffset(400, 200, 100, 50), window |-> mockViewport,
    tipWidth |-> 300, tipHeight |-> 250],
   [target |-> makeOffset(400, 200, 100, 50), window |-> mockViewport,
    tipWidth |-> 200, tipHeight |-> 100],
   [target |-> makeOffset(0, 0, 1200, 900), window |-> mockViewport,
    tipWidth |-> 200, tipHeight |-> 100],
   [target |-> makeOffset(400, 200, 100, 50), window |-> mockViewport,
    tipWidth |-> 0, tipHeight |-> 0]}

\* The pages scanned: up to three elements with the intro attribute, each
\* in group "g" or in none, hidden or not (a hidden one in no group), with
\* data-step 1..3 or none.
ElementIds == <<"e1", "e2", "e3">>

ElementAttributes ==
  {a \in [group : {"", "g"}, hidden : BOOLEAN, dataStep : 0..3] : a.hidden => a.group = ""}

Pages ==
  {[elements |-> [k \in 1..Len(attrs) |->
                    [id |-> ElementIds[k], group |-> attrs[k].group,
                     hidden |-> attrs[k].hidden, dataStep |-> attrs[k].dataStep]],
    group |-> g] : attrs \in SeqsUpTo(ElementAttributes, 3), g \in {"", "g"}}

InitSteps ==
  /\ OverlayAtRest
  /\ SkipAtRest
  /\ PlacementAtRest
  /\ TourInitial(1)
  /\ CampaignAtRest
  /\ ManagerAtRest
  /\ OffsetAtRest
  /\ RefreshAtRest
  /\ \/ /\ stepsOption \in SeqsUpTo(StepOptions, MaxStepOptions) \ {<<>>}
        /\ markup = [elements |-> <<>>, group |-> ""]
     \/ /\ stepsOption = <<>>
        /\ markup \in Pages
  /\ autoPosition \in BOOLEAN
  /\ introSteps = <<>>
  /\ fetched = FALSE
  /\ tipStep = 0
  /\ tipPosition = "bottom"
  /\ tipPasses = 0

FetchSteps ==
  /\ ~fetched
  /\ fetched' = TRUE
  /\ introSteps' = fetchSteps(stepsOption, markup.elements, markup.group)
  /\ UNCHANGED <<nonStepListVars, markup, stepsOption, autoPosition, tipStep, tipPosition, tipPasses>>

\* The Tooltip of step i is built: position.val starts as the step's
\* position and the derive runs once.
ShowTooltip(i) ==
  /\ fetched
  /\ i \in 1..Len(introSteps)
  /\ tipStep # i
  /\ tipStep' = i
  /\ tipPasses' = 1
  /\ \E g \in PassGeometries :
       tipPosition' = tooltipPositionPass(introSteps[i].position, autoPosition,
                                          positionPrecedenceOption, g.target, g.tipWidth,
                                          g.tipHeight, g.window, introSteps[i].position)
  /\ UNCHANGED <<nonStepListVars, markup, stepsOption, autoPosition, introSteps, fetched>>

\* The derive of the existing Tooltip runs again (refresh, or the overlay
\* has been measured).
PlacementPass ==
  /\ tipStep # 0
  /\ tipPasses < MaxPasses
  /\ tipPasses' = tipPasses + 1
  /\ \E g \in PassGeometries :
       tipPosition' = tooltipPositionPass(introSteps[tipStep].position, autoPosition,
                                          positionPrecedenceOption, g.target, g.tipWidth,
                                          g.tipHeight, g.window, tipPosition)
  /\ UNCHANGED <<nonStepListVars, markup, stepsOption, autoPosition, introSteps, fetched, tipStep>>

NextSteps ==
  \/ FetchSteps
  \/ \E i \in 1..MaxStepOptions : ShowTooltip(i)
  \/ PlacementPass

SpecSteps == InitSteps /\ [][NextSteps]_vars

---------------------------------------------------------------------------
(* Properties of the step list (checked under SpecSteps)                   *)

\* The element options that leave a step without an anchor.
Anchorless == {"absent", "null", "selector-miss"}

\* C18: a programmatic step whose selector matches nothing, or that names
\* no element, is kept by fetchSteps (no step is dropped, so the i-th
\* option is the i-th step) as a step on the floating element with position
\* "floating", and the Tooltip built for it holds position "floating" after
\* every placement pass.
C18_AnchorlessStepsFloat ==
  (fetched /\ stepsOption # <<>>) =>
    /\ Len(introSteps) = Len(stepsOption)
    /\ \A i \in 1..Len(stepsOption) :
         stepsOption[i].element \in Anchorless
           => /\ i <= Len(introSteps)
              /\ introSteps[i].step = i
              /\ introSteps[i].element = "floating-element"
              /\ introSteps[i].position = "floating"
              /\ (tipStep = i => tipPosition = "floating")

\* With autoPosition on, the Tooltip of a step that asked for "top" on a
\* selector matching nothing has made a second placement pass.
C18_Witness ==
  /\ fetched
  /\ autoPosition
  /\ tipStep \in 1..Len(stepsOption)
  /\ tipPasses >= 2
  /\ stepsOption[tipStep].element = "selector-miss"
  /\ stepsOption[tipStep].position = "top"

\* The scanned elements that belong to the selected group and are not
\* hidden, by their place in the document.
Selected ==
  {k \in 1..Len(markup.elements) :
     /\ ~markup.elements[k].hidden
     /\ markup.group = "" \/ markup.elements[k].group = markup.group}

Numbered == {k \in Selected : markup.elements[k].dataStep > 0}

\* The step numbers the numbered elements declare, and the m-th lowest
\* number none of them declares.
DeclaredNumbers == {markup.elements[k].dataStep : k \in Numbered}

FreeNumber(m) ==
  CHOOSE n \in 1..(Len(markup.elements) + Cardinality(DeclaredNumbers)) :
    /\ n \notin DeclaredNumbers
    /\ Cardinality({x \in 1..n : x \notin DeclaredNumbers}) = m

\* How many unnumbered selected elements come up to element k in the document.
UnnumberedRank(k) == Cardinality({j \in Selected \ Numbered : j <= k})

\* C32: the list fetchSteps returns is strictly increasing in step number;
\* a programmatic list gives one step per option, numbered 1..n in the
\* given order; in a declarative scan the unnumbered elements take the
\* lowest numbers no element declares, in document order.
C32_StepsStrictlyIncreasing ==
  fetched =>
    /\ \A i, j \in 1..Len(introSteps) : i < j => introSteps[i].step < introSteps[j].step
    /\ stepsOption # <<>> =>
         /\ Len(introSteps) = Len(stepsOption)
         /\ \A i \in 1..Len(introSteps) :
              /\ introSteps[i].step = i
              /\ introSteps[i].element =
                   IF stepsOption[i].element \in {"selector-hit", "node"}
                     THEN "node" ELSE "floating-element"
    /\ stepsOption = <<>> =>
         \A k \in Selected \ Numbered :
           \E i \in 1..Len(introSteps) :
             /\ introSteps[i].element = markup.elements[k].id
             /\ introSteps[i].step = FreeNumber(UnnumberedRank(k))

\* A scan of three elements, the first declaring step 2 and the others
\* unnumbered: they get 1 and 3.
C32_Witness ==
  /\ fetched
  /\ stepsOption = <<>>
  /\ Len(markup.elements) = 3
  /\ markup.elements[1].dataStep = 2
  /\ Len(introSteps) = 3
  /\ introSteps[1].element = "e2"
  /\ introSteps[2].element = "e1"
  /\ introSteps[3].element = "e3"
  /\ introSteps[3].step = 3

\* C33: in a declarative scan every element of the selected group that is
\* not hidden is exactly one step of the list fetchSteps returns.
C33_EveryElementListed ==
  (fetched /\ stepsOption = <<>>) =>
    \A k \in Selected :
      Cardinality({i \in 1..Len(introSteps) :
                     introSteps[i].element = markup.elements[k].id}) = 1

---------------------------------------------------------------------------
(* The campaign manager: executeCampaign (manager.ts) with the frequency   *)
(* check and the execution tracking of CampaignStorage (storage.ts), for   *)
(* one registered campaign.                                                *)

\* 24 * 60 * 60 * 1000: the window of a "daily" campaign, in milliseconds.
DayMs == 24 * 60 * 60 * 1000

\* checkTimeWindow: no last execution, or the window has passed.
checkTimeWindow(lastExecution, windowMs, now) ==
  IF lastExecution = 0 THEN TRUE ELSE now - lastExecution >= windowMs

\* canExecuteCampaign: the limit first, then the frequency type.
canExecuteCampaign(f, count, lastExecution, inSession, now) ==
  IF f.limit # 0 /\ count >= f.limit THEN FALSE
  ELSE CASE f.type = "once" -> count = 0
         [] f.type = "session" -> ~inSession
         [] f.type = "daily" -> checkTimeWindow(lastExecution, DayMs, now)
         [] f.type = "always" ->
              IF f.cooldownMs # 0 THEN checkTimeWindow(lastExecution, f.cooldownMs, now)
              ELSE TRUE
         [] OTHER -> TRUE

\* A variant of trackCampaignExecution that only stamps the time.
trackCampaignExecutionNoCount(data, now) ==
  [count |-> data.count, lastExecution |-> now]

\* trackCampaignExecution: the stored data of the campaign afterwards.
trackCampaignExecution(data, now) ==
  [count |-> data.count + 1, lastExecution |-> now]

---------------------------------------------------------------------------
(* Specification of the campaign manager.  executeCampaign runs the        *)
(* frequency check as soon as it is called, then awaits (the targeting     *)
(* check may await a custom function), then tracks the execution, awaits   *)
(* again and starts the tour; other calls run in between.                  *)

MaxLimit == 2
MaxExecs == 3
MaxTicks == 3

\* The clock advances by half a day.
ClockStep == DayMs \div 2

FrequencyTypes == {"once", "session", "daily", "always"}

Frequencies ==
  {f \in [type : FrequencyTypes, limit : 0..MaxLimit, cooldownMs : {0, DayMs}] :
     f.cooldownMs # 0 => f.type = "always"}

InitCampaign ==
  /\ OverlayAtRest
  /\ SkipAtRest
  /\ PlacementAtRest
  /\ TourInitial(1)
  /\ StepListAtRest
  /\ ManagerAtRest
  /\ OffsetAtRest
  /\ RefreshAtRest
  /\ \E f \in Frequencies : CampaignInitial(f, ClockStep)

\* A trigger fires: executeCampaign up to its first await.
ExecuteCampaign(e) ==
  /\ execPc[e] \in {"idle", "returned"}
  /\ execCount < MaxExecs
  /\ execCount' = execCount + 1
  /\ IF canExecuteCampaign(frequency, storedCount, storedLast, sessionExecuted, clock)
     THEN /\ execPc' = [execPc EXCEPT ![e] = "checked"]
          /\ execResult' = [execResult EXCEPT ![e] = "none"]
     ELSE /\ execPc' = [execPc EXCEPT ![e] = "returned"]
          /\ execResult' = [execResult EXCEPT ![e] = "false"]
  /\ UNCHANGED <<nonCampaignVars, frequency, storedCount, storedLast, sessionExecuted,
                 clock, toursStarted, sessionStarts, activeTour,
                 runningTours, trackedTour>>

\* executeCampaign called with an id that no registered campaign has:
\* campaigns.get gives undefined and the call returns false at once.
ExecuteUnknownCampaign(e) ==
  /\ execPc[e] \in {"idle", "returned"}
  /\ execCount < MaxExecs
  /\ execCount' = execCount + 1
  /\ execPc' = [execPc EXCEPT ![e] = "returned"]
  /\ execResult' = [execResult EXCEPT ![e] = "false"]
  /\ UNCHANGED <<nonCampaignVars, frequency, storedCount, storedLast, sessionExecuted,
                 clock, toursStarted, sessionStarts, activeTour,
                 runningTours, trackedTour>>

\* The targeting check has settled: return false if it did not match, else
\* trackCampaignExecution.
TrackExecution(e) ==
  /\ execPc[e] = "checked"
  /\ \E matches \in BOOLEAN :
       IF matches
       THEN /\ LET data == trackCampaignExecution(
                              [count |-> storedCount, lastExecution |-> storedLast], clock)
               IN  /\ storedCount' = data.count
                   /\ storedLast' = data.lastExecution
            /\ sessionExecuted' = TRUE
            /\ execPc' = [execPc EXCEPT ![e] = "tracked"]
            /\ execResult' = execResult
       ELSE /\ execPc' = [execPc EXCEPT ![e] = "returned"]
            /\ execResult' = [execResult EXCEPT ![e] = "false"]
            /\ UNCHANGED <<storedCount, storedLast, sessionExecuted>>
  /\ UNCHANGED <<nonCampaignVars, frequency, clock, execCount, toursStarted,
                 sessionStarts, activeTour, runningTours, trackedTour>>

\* The tour is created, stored in activeTours and started; if start throws
\* the tour is removed again and the call returns false.
StartTour(e) ==
  /\ execPc[e] = "tracked"
  /\ toursStarted' = toursStarted + 1
  /\ sessionStarts' = sessionStarts + 1
  /\ execPc' = [execPc EXCEPT ![e] = "returned"]
  /\ \E started \in BOOLEAN :
       /\ activeTour' = started
       /\ trackedTour' = IF started THEN toursStarted + 1 ELSE 0
       /\ runningTours' = IF started THEN runningTours \cup {toursStarted + 1} ELSE runningTours
       /\ execResult' = [execResult EXCEPT ![e] = IF started THEN "true" ELSE "false"]
  /\ UNCHANGED <<nonCampaignVars, frequency, storedCount, storedLast, sessionExecuted,
                 clock, execCount>>

\* Tour t of the campaign completes or exits: its onComplete/onExit
\* callback deletes the entry of the campaign id from activeTours.
TourEnds(t) ==
  /\ t \in runningTours
  /\ runningTours' = runningTours \ {t}
  /\ activeTour' = FALSE
  /\ trackedTour' = 0
  /\ UNCHANGED <<nonCampaignVars, frequency, storedCount, storedLast, sessionExecuted,
                 clock, execPc, execResult, execCount, toursStarted, sessionStarts>>

\* Time passes.
Tick ==
  /\ clock < MaxTicks * ClockStep
  /\ clock' = clock + ClockStep
  /\ UNCHANGED <<nonCampaignVars, frequency, storedCount, storedLast, sessionExecuted,
                 execPc, execResult, execCount, toursStarted, sessionStarts, activeTour,
                 runningTours, trackedTour>>

\* The page is opened in a new browser session: sessionStorage is empty,
\* localStorage is kept, nothing of the old page is running.
NewSession ==
  /\ sessionExecuted
  /\ sessionExecuted' = FALSE
  /\ execPc' = [e \in Execs |-> "idle"]
  /\ execResult' = [e \in Execs |-> "none"]
  /\ activeTour' = FALSE
  /\ runningTours' = {}
  /\ trackedTour' = 0
  /\ sessionStarts' = 0
  /\ UNCHANGED <<nonCampaignVars, frequency, storedCount, storedLast, clock, execCount,
                 toursStarted>>

NextCampaign ==
  \/ \E e \in Execs : ExecuteCampaign(e)
  \/ \E e \in Execs : ExecuteUnknownCampaign(e)
  \/ \E e \in Execs : TrackExecution(e)
  \/ \E e \in Execs : StartTour(e)
  \/ \E t \in 1..MaxExecs : TourEnds(t)
  \/ Tick
  \/ NewSession

SpecCampaign == InitCampaign /\ [][NextCampaign]_vars

---------------------------------------------------------------------------
(* Properties of the campaign manager (checked under SpecCampaign)         *)

\* C19: a campaign with frequency type "once" starts its tour at most once
\* in total, whatever the interleaving of its executeCampaign calls.
C19_OnceStartsOnce == frequency.type = "once" => toursStarted <= 1

\* C20: for a campaign with frequency.limit = L >= 1, the persisted
\* execution count never exceeds L and the tour is started at most L times.
C20_LimitBoundsExecutions ==
  frequency.limit >= 1 => (storedCount <= frequency.limit /\ toursStarted <= frequency.limit)

\* C21: a campaign with frequency type "session" starts its tour at most
\* once per browser session.
C21_SessionStartsOnce == frequency.type = "session" => sessionStarts <= 1

\* This step is a call that returns at once: the id is unknown or the
\* frequency check fails.
RefusedAtOnce ==
  /\ execCount' = execCount + 1
  /\ \A e \in Execs : execPc'[e] = "checked" => execPc[e] = "checked"

\* This step ends the call in slot e after its await: the targeting check fails.
RefusedAfterCheck(e) == execPc[e] = "checked" /\ execPc'[e] = "returned"

\* This step is the one in which the call in slot e has passed the checks.
PassedChecks(e) == execPc[e] = "checked" /\ execPc'[e] = "tracked"

\* What a refusal leaves alone.
NothingExecuted ==
  UNCHANGED <<storedCount, storedLast, sessionExecuted, activeTour, toursStarted>>

C38_RunningToursTracked == \A t \in runningTours : trackedTour = t

---------------------------------------------------------------------------
(* The campaign registry and the trigger detector                          *)
(* (packages/campaign/manager.ts, packages/campaign/triggers.ts).          *)
(*                                                                         *)
(* The manager state is the record mgr (fields: see EmptyManager).  A      *)
(* campaign given to the manager is [id, active, triggers], triggers being *)
(* the sequence of its trigger types.  Maps are functions over the keys    *)
(* they hold.  A key of the detector's maps is the pair <<id, suffix>>     *)
(* standing for the string `${id}-${suffix}`.                              *)

\* Map.set and Map.delete.
mapSet(m, k, v) == [x \in DOMAIN m \cup {k} |-> IF x = k THEN v ELSE m[x]]

mapDelete(m, k) == [x \in DOMAIN m \ {k} |-> m[x]]

mapValues(m) == {m[x] : x \in DOMAIN m}

\* The trigger types modelled: one listener on document per element_click
\* and custom_event trigger, one timeout per time_on_page trigger.
TriggerTypes == {"element_click", "time_on_page", "custom_event"}

\* The suffix of the key under which the setup function of a trigger type
\* stores its cleanup function or its timer.
registrationSuffix(type) ==
  CASE type = "element_click" -> "click"
    [] type = "time_on_page" -> "time"
    [] type = "custom_event" -> "custom"

\* setupTrigger: attaches the listener (or starts the timer) whose firing
\* calls the callback for campaign id, and stores its cleanup (its timer)
\* under `${id}-${suffix}`, replacing what the key held.
setupTrigger(m, id, type) ==
  LET h == m.handles + 1
      key == <<id, registrationSuffix(type)>>
      attached == [m EXCEPT !.handles = h,
                            !.live = @ \cup {[h |-> h, id |-> id, type |-> type]}]
  IN  IF type = "time_on_page"
        THEN [attached EXCEPT !.timers = mapSet(@, key, h)]
        ELSE [attached EXCEPT !.eventListeners = mapSet(@, key, h)]

\* addTrigger: records the trigger for the campaign, then sets it up.
addTrigger(m, id, type) ==
  LET listed == IF id \in DOMAIN m.triggers THEN m.triggers[id] ELSE <<>>
  IN  setupTrigger([m EXCEPT !.triggers = mapSet(@, id, Append(listed, type))], id, type)

\* setupCampaignTriggers: addTrigger for each trigger of the campaign, in order.
RECURSIVE setupTriggers(_, _, _)
setupTriggers(m, id, types) ==
  IF types = <<>> THEN m
  ELSE setupTriggers(addTrigger(m, id, Head(types)), id, Tail(types))

setupCampaignTriggers(m, campaign) == setupTriggers(m, campaign.id, campaign.triggers)

addCampaignUnguarded(m, campaign) ==
  setupCampaignTriggers([m EXCEPT !.campaigns = mapSet(@, campaign.id, campaign.active)],
                        campaign)

\* addCampaign: registers an active campaign and sets up its triggers.
addCampaign(m, campaign) ==
  IF campaign.active
    THEN setupCampaignTriggers([m EXCEPT !.campaigns = mapSet(@, campaign.id, campaign.active)],
                               campaign)
    ELSE m

\* loadCampaigns: the same for each campaign of the configuration, in order.
RECURSIVE loadCampaigns(_, _)
loadCampaigns(m, config) ==
  IF config = <<>> THEN m
  ELSE LET campaign == Head(config)
           loaded == IF campaign.active
                       THEN setupCampaignTriggers(
                              [m EXCEPT !.campaigns = mapSet(@, campaign.id, campaign.active)],
                              campaign)
                       ELSE m
       IN  loadCampaigns(loaded, Tail(config))

\* cleanupTrigger: looks up `${id}-${trigger.type}` in both maps and removes
\* the listener and the timer it finds there.
cleanupTrigger(m, id, type) ==
  LET triggerKey == <<id, type>>
      listenersCleaned ==
        IF triggerKey \in DOMAIN m.eventListeners
          THEN [m EXCEPT !.live = {l \in @ : l.h # m.eventListeners[triggerKey]},
                         !.eventListeners = mapDelete(@, triggerKey)]
          ELSE m
  IN  IF triggerKey \in DOMAIN listenersCleaned.timers
        THEN [listenersCleaned EXCEPT
                !.live = {l \in @ : l.h # listenersCleaned.timers[triggerKey]},
                !.timers = mapDelete(@, triggerKey)]
        ELSE listenersCleaned

RECURSIVE cleanupTriggers(_, _, _)
cleanupTriggers(m, id, types) ==
  IF types = <<>> THEN m
  ELSE cleanupTriggers(cleanupTrigger(m, id, Head(types)), id, Tail(types))

\* removeCampaignTriggers: cleanupTrigger for each trigger recorded for the
\* campaign, then forgets the campaign's triggers.
removeCampaignTriggers(m, id) ==
  IF id \in DOMAIN m.triggers
    THEN [cleanupTriggers(m, id, m.triggers[id]) EXCEPT !.triggers = mapDelete(@, id)]
    ELSE m

\* tour.exit() called on each tour of hs: a running tour begins to exit.
exitCalled(tours, hs) ==
  {IF t.h \in hs /\ t.state = "running" THEN [t EXCEPT !.state = "exiting"] ELSE t : t \in tours}

\* removeCampaign: for a registered campaign, removes its triggers, drops it
\* from the registry, calls exit on its stored tour and forgets the tour.
removeCampaign(m, id) ==
  IF id \in DOMAIN m.campaigns
    THEN LET removed == [removeCampaignTriggers(m, id) EXCEPT !.campaigns = mapDelete(@, id)]
         IN  IF id \in DOMAIN removed.activeTours
               THEN [removed EXCEPT !.tours = exitCalled(@, {removed.activeTours[id]}),
                                    !.activeTours = mapDelete(@, id)]
               ELSE removed
    ELSE m

\* stopAllCampaigns, up to its return: calls exit on every stored tour and
\* clears activeTours.
stopAllCampaigns(m) ==
  [m EXCEPT !.tours = exitCalled(@, mapValues(m.activeTours)), !.activeTours = <<>>]

\* TriggerDetector.destroy: runs every cleanup function held in
\* eventListeners, clears every timer held in timers, and empties the maps.
detectorDestroy(m) ==
  [m EXCEPT !.live = {l \in @ : l.h \notin mapValues(m.eventListeners) \cup mapValues(m.timers)},
            !.eventListeners = <<>>, !.timers = <<>>, !.triggers = <<>>]

\* CampaignManager.destroy.
destroy(m) == [detectorDestroy(stopAllCampaigns(m)) EXCEPT !.campaigns = <<>>]

\* Bounds of the exploration.
MaxHandles == 3

MaxTours == 1

TriggerLists ==
  {<<"element_click">>, <<"custom_event", "time_on_page">>, <<"element_click", "element_click">>}

\* The listeners and timers, and the tours, that can exist within the bounds.
Registrations == [h : 1..(MaxHandles + MaxTours), id : CampaignIds, type : TriggerTypes]

TourRecords == [h : 1..(MaxHandles + MaxTours), id : CampaignIds, state : {"running", "exiting"}]

CampaignInputs == [id : CampaignIds, active : BOOLEAN, triggers : TriggerLists]

\* Configurations given to loadCampaigns: one campaign per id.
CampaignConfigs == {<<a, b>> : a \in {c \in CampaignInputs : c.id = "a"}, b \in {c \in CampaignInputs : c.id = "b" /\ Len(c.triggers) = 1}}

handlesNeeded(config) ==
  IF config = <<>> THEN 0
  ELSE Len(config[1].triggers) + (IF Len(config) > 1 THEN Len(config[2].triggers) ELSE 0)

InitManager ==
  /\ OverlayAtRest
  /\ SkipAtRest
  /\ PlacementAtRest
  /\ TourInitial(1)
  /\ StepListAtRest
  /\ CampaignAtRest
  /\ ManagerAtRest
  /\ OffsetAtRest
  /\ RefreshAtRest

\* manager.addCampaign(campaign).
AddCampaign(campaign) ==
  /\ mgr.handles + Len(campaign.triggers) <= MaxHandles
  /\ mgr' = addCampaign(mgr, campaign)
  /\ UNCHANGED <<lastExec, stopPc, stopSnapshot, nonManagerVars>>

\* manager.loadCampaigns(config).
LoadCampaigns(config) ==
  /\ mgr.handles + handlesNeeded(config) <= MaxHandles
  /\ mgr' = loadCampaigns(mgr, config)
  /\ UNCHANGED <<lastExec, stopPc, stopSnapshot, nonManagerVars>>

\* manager.removeCampaign(id).
RemoveCampaign(id) ==
  /\ mgr' = removeCampaign(mgr, id)
  /\ UNCHANGED <<lastExec, stopPc, stopSnapshot, nonManagerVars>>

\* executeCampaign up to its first await: false for an id that is not in
\* the registry; otherwise the call waits on shouldExecuteCampaign, holding
\* the campaign object it read.
executeCampaignCall(id) ==
  IF id \in DOMAIN mgr.campaigns
    THEN /\ id \notin mgr.pending
         /\ Cardinality(mgr.tours) + Cardinality(mgr.pending) < MaxTours
         /\ mgr' = [mgr EXCEPT !.pending = @ \cup {id}]
         /\ lastExec' = [id |-> id, result |-> "pending"]
    ELSE /\ mgr' = mgr
         /\ lastExec' = [id |-> id, result |-> "false"]

\* manager.executeCampaign(id, trigger) called directly.
ExecuteCampaignCall(id) ==
  /\ executeCampaignCall(id)
  /\ UNCHANGED <<stopPc, stopSnapshot, nonManagerVars>>

\* introJs.triggerCampaign(id): false when getCampaign(id) is undefined,
\* otherwise the result of executeCampaign.
TriggerCampaign(id) ==
  /\ IF id \in DOMAIN mgr.campaigns
       THEN executeCampaignCall(id)
       ELSE /\ mgr' = mgr
            /\ lastExec' = [id |-> id, result |-> "false"]
  /\ UNCHANGED <<stopPc, stopSnapshot, nonManagerVars>>

\* A DOM event reaches the attached listener l, or the timer l expires: the
\* trigger callback runs and calls executeCampaign for l.id.  A timer fires once.
Fire(l) ==
  /\ l \in mgr.live
  /\ LET m == IF l.type = "time_on_page" THEN [mgr EXCEPT !.live = @ \ {l}] ELSE mgr
     IN  IF l.id \in DOMAIN m.campaigns
           THEN /\ l.id \notin m.pending
                /\ Cardinality(m.tours) + Cardinality(m.pending) < MaxTours
                /\ mgr' = [m EXCEPT !.pending = @ \cup {l.id}]
                /\ lastExec' = [id |-> l.id, result |-> "pending"]
           ELSE /\ mgr' = m
                /\ lastExec' = [id |-> l.id, result |-> "false"]
  /\ UNCHANGED <<stopPc, stopSnapshot, nonManagerVars>>

\* executeCampaign after shouldExecuteCampaign resolved: false when it
\* resolved to false; otherwise the execution is tracked, a tour is
\* created, stored in activeTours and started, and the result is true.
ExecuteCampaignResume(id, should) ==
  /\ id \in mgr.pending
  /\ IF should
       THEN LET h == mgr.handles + 1
            IN  /\ mgr' = [mgr EXCEPT !.pending = @ \ {id},
                                      !.handles = h,
                                      !.tracked[id] = @ + 1,
                                      !.tours = @ \cup {[h |-> h, id |-> id, state |-> "running"]},
                                      !.activeTours = mapSet(@, id, h)]
                /\ lastExec' = [id |-> id, result |-> "true"]
       ELSE /\ mgr' = [mgr EXCEPT !.pending = @ \ {id}]
            /\ lastExec' = [id |-> id, result |-> "false"]
  /\ UNCHANGED <<stopPc, stopSnapshot, nonManagerVars>>

\* A tour leaves: a running tour is completed or exited by its user, or an
\* exit begun by the manager completes.  Its onComplete/onExit callback
\* deletes the entry of its campaign id from activeTours.
TourLeaves(t) ==
  /\ t \in mgr.tours
  /\ t.state # "exited"
  /\ mgr' = [mgr EXCEPT !.tours = (@ \ {t}) \cup {[t EXCEPT !.state = "exited"]},
                        !.activeTours = mapDelete(@, t.id)]
  /\ UNCHANGED <<lastExec, stopPc, stopSnapshot, nonManagerVars>>

\* manager.stopAllCampaigns() is called and runs to its return.
StopAllCampaigns ==
  /\ stopPc = "idle"
  /\ stopSnapshot' = mapValues(mgr.activeTours)
  /\ mgr' = stopAllCampaigns(mgr)
  /\ stopPc' = "called"
  /\ UNCHANGED <<lastExec, nonManagerVars>>

\* The promise returned by stopAllCampaigns resolves.
StopAllResolves ==
  /\ stopPc = "called"
  /\ stopPc' = "idle"
  /\ stopSnapshot' = {}
  /\ UNCHANGED <<mgr, lastExec, nonManagerVars>>

\* manager.destroy().
Destroy ==
  /\ mgr' = destroy(mgr)
  /\ UNCHANGED <<lastExec, stopPc, stopSnapshot, nonManagerVars>>

NextManager ==
  \/ \E campaign \in CampaignInputs : AddCampaign(campaign)
  \/ \E config \in CampaignConfigs : LoadCampaigns(config)
  \/ \E id \in CampaignIds : RemoveCampaign(id)
  \/ \E id \in CampaignIds : ExecuteCampaignCall(id)
  \/ \E id \in CampaignIds : TriggerCampaign(id)
  \/ \E l \in Registrations : Fire(l)
  \/ \E id \in CampaignIds, should \in BOOLEAN : ExecuteCampaignResume(id, should)
  \/ \E t \in TourRecords : TourLeaves(t)
  \/ StopAllCampaigns
  \/ StopAllResolves
  \/ Destroy

SpecManager == InitManager /\ [][NextManager]_vars

---------------------------------------------------------------------------
(* Properties of the campaign registry and the trigger detector            *)
(* (checked under SpecManager)                                             *)

\* C22: the registry holds only active campaigns and triggers only of
\* registered campaigns; adding an inactive campaign changes nothing; and
\* executeCampaign or triggerCampaign for an id that is not registered
\* returns false without tracking an execution or creating a tour.
C22_RegistryHoldsActiveOnly ==
  [][/\ \A id \in DOMAIN mgr'.campaigns : mgr'.campaigns[id]
     /\ DOMAIN mgr'.triggers \subseteq DOMAIN mgr'.campaigns
     /\ \A campaign \in CampaignInputs :
          (AddCampaign(campaign) /\ ~campaign.active) => mgr' = mgr
     /\ \A id \in CampaignIds :
          ((ExecuteCampaignCall(id) \/ TriggerCampaign(id)) /\ id \notin DOMAIN mgr.campaigns)
            => /\ lastExec' = [id |-> id, result |-> "false"]
               /\ mgr'.tracked = mgr.tracked
               /\ mgr'.tours = mgr.tours
               /\ mgr'.pending = mgr.pending]_vars

\* Campaign "a" is registered with its one trigger, nothing was ever set up
\* for "b", and an execution of "b" has returned false.
C22_Witness ==
  /\ DOMAIN mgr.campaigns = {"a"}
  /\ mgr.handles = 1
  /\ "b" \notin DOMAIN mgr.triggers
  /\ lastExec = [id |-> "b", result |-> "false"]

\* C23: a removeCampaign(id) step of a registered campaign leaves no
\* listener and no timer attached that calls the trigger callback for id.
C23_RemoveDetachesTriggers ==
  [][\A id \in CampaignIds :
       (RemoveCampaign(id) /\ id \in DOMAIN mgr.campaigns)
         => \A l \in mgr'.live : l.id # id]_vars

\* C24: when the promise returned by stopAllCampaigns resolves, exit has
\* completed on every tour that was in activeTours at the call, and
\* activeTours is empty.
C24_StopAllAwaitsExits ==
  [][StopAllResolves
       => /\ \A t \in mgr.tours : t.h \in stopSnapshot => t.state = "exited"
          /\ mgr.activeTours = <<>>]_vars

\* C25: a destroy() step leaves no listener and no timer of the trigger
\* detector attached.
C25_DestroyDetachesAll == [][Destroy => mgr'.live = {}]_vars

---------------------------------------------------------------------------
(* getOffset with a reference container (util/getOffset.ts).               *)
(*                                                                         *)
(* dom.chain lists the ancestors of the measured element from its parent   *)
(* up to the root: some div elements, then body, then html.  An ancestor   *)
(* is [tag, scrollable, scrollTop, scrollLeft, position, rect], scrollable *)
(* being isScrollable of its computed style and rect the top and left of   *)
(* its bounding client rectangle.  A container is named by its index in    *)
(* the chain, 0 standing for a call without a container.                   *)

\* a || b on numbers.
orElse(a, b) == IF a # 0 THEN a ELSE b

\* getScrollParents: the scrollable ancestors, nearest first.
getScrollParents(chain) ==
  SelectSeq([i \in 1..Len(chain) |-> i], LAMBDA i : chain[i].scrollable)

\* The loop of calculateRelativePosition: adds the scroll offsets of the
\* scroll parents in order and stops after the one that is the container.
RECURSIVE accumulateScroll(_, _, _, _)
accumulateScroll(topLeft, chain, scrollParents, c) ==
  IF scrollParents = <<>> THEN topLeft
  ELSE LET scrollParent == Head(scrollParents)
           added == [top  |-> topLeft.top + chain[scrollParent].scrollTop,
                     left |-> topLeft.left + chain[scrollParent].scrollLeft]
       IN  IF scrollParent = c THEN added
           ELSE accumulateScroll(added, chain, Tail(scrollParents), c)

calculateFixedPosition(elementRect) == [top |-> elementRect.top, left |-> elementRect.left]

calculateRelativePosition(chain, elementRect, containerRect, c) ==
  accumulateScroll([top  |-> elementRect.top - containerRect.top,
                    left |-> elementRect.left - containerRect.left],
                   chain, getScrollParents(chain), c)

calculateDocumentPosition(elementRect, d) ==
  LET documentElement == d.chain[Len(d.chain)]
      body == d.chain[Len(d.chain) - 1]
      scrollTop == orElse(orElse(d.pageYOffset, documentElement.scrollTop), body.scrollTop)
      scrollLeft == orElse(orElse(d.pageXOffset, documentElement.scrollLeft), body.scrollLeft)
  IN  [top |-> elementRect.top + scrollTop, left |-> elementRect.left + scrollLeft]

\* A variant that derives the absolute box from the container-relative one.
getOffsetWithinFromRelative(d, relativeContainer) ==
  LET c == IF relativeContainer = 0 THEN Len(d.chain) ELSE relativeContainer
      elementRect == d.rect
      containerRect == d.chain[c].rect
      containerPosition == d.chain[c].position
      at == IF d.fixed
              THEN calculateFixedPosition(elementRect)
              ELSE IF d.chain[c].tag # "body" /\ containerPosition \in {"relative", "sticky"}
                     THEN calculateRelativePosition(d.chain, elementRect, containerRect, c)
                     ELSE calculateDocumentPosition(elementRect, d)
  IN  [top            |-> at.top,
       left           |-> at.left,
       width          |-> elementRect.width,
       height         |-> elementRect.height,
       bottom         |-> at.top + elementRect.height,
       right          |-> at.left + elementRect.width,
       absoluteTop    |-> at.top + d.pageYOffset,
       absoluteLeft   |-> at.left + d.pageXOffset,
       absoluteBottom |-> at.top + elementRect.height + d.pageYOffset,
       absoluteRight  |-> at.left + elementRect.width + d.pageXOffset]

\* getOffset(element, relativeContainer), all three branches.
getOffsetWithin(d, relativeContainer) ==
  LET c == IF relativeContainer = 0 THEN Len(d.chain) ELSE relativeContainer
      elementRect == d.rect
      containerRect == d.chain[c].rect
      containerPosition == d.chain[c].position
      at == IF d.fixed
              THEN calculateFixedPosition(elementRect)
              ELSE IF d.chain[c].tag # "body" /\ containerPosition \in {"relative", "sticky"}
                     THEN calculateRelativePosition(d.chain, elementRect, containerRect, c)
                     ELSE calculateDocumentPosition(elementRect, d)
  IN  [top            |-> at.top,
       left           |-> at.left,
       width          |-> elementRect.width,
       height         |-> elementRect.height,
       bottom         |-> at.top + elementRect.height,
       right          |-> at.left + elementRect.width,
       absoluteTop    |-> elementRect.top + d.pageYOffset,
       absoluteLeft   |-> elementRect.left + d.pageXOffset,
       absoluteBottom |-> elementRect.top + elementRect.height + d.pageYOffset,
       absoluteRight  |-> elementRect.left + elementRect.width + d.pageXOffset]

\* Bounds and inputs of the exploration: at most MaxDepth div elements
\* between the measured element and body.
MaxDepth == 2

ScrollOffsets == {<<0, 0>>, <<5, 3>>}

ContainerCorners == {[top |-> 0, left |-> 0], [top |-> 2, left |-> 1]}

PageScrolls == {<<0, 0>>, <<7, 4>>}

ElementRects ==
  {[top |-> 0, left |-> 0, width |-> 8, height |-> 8],
   [top |-> 16, left |-> 8, width |-> 8, height |-> 4]}

\* A div is scrolled only when it is scrollable.
DivAncestors ==
  {a \in {[tag |-> "div", scrollable |-> s, scrollTop |-> sc[1], scrollLeft |-> sc[2],
           position |-> p, rect |-> r] :
            s \in BOOLEAN, sc \in ScrollOffsets,
            p \in {"static", "relative", "sticky"}, r \in ContainerCorners} :
     a.scrollable \/ (a.scrollTop = 0 /\ a.scrollLeft = 0)}

\* body and html of a page scrolled by page: overflow visible, html carrying
\* the page scroll, both boxes starting at the document's origin.
bodyElement(page, bodyPosition) ==
  [tag |-> "body", scrollable |-> FALSE, scrollTop |-> 0, scrollLeft |-> 0,
   position |-> bodyPosition, rect |-> [top |-> 0 - page[2], left |-> 0 - page[1]]]

htmlElement(page) ==
  [tag |-> "html", scrollable |-> FALSE, scrollTop |-> page[2], scrollLeft |-> page[1],
   position |-> "static", rect |-> [top |-> 0 - page[2], left |-> 0 - page[1]]]

Doms ==
  {[fixed |-> f, rect |-> r,
    chain |-> divs \o <<bodyElement(page, bp), htmlElement(page)>>,
    pageXOffset |-> page[1], pageYOffset |-> page[2]] :
     f \in BOOLEAN, r \in ElementRects, divs \in SeqsUpTo(DivAncestors, MaxDepth),
     page \in PageScrolls, bp \in {"static", "relative"}}

InitOffset ==
  /\ OverlayAtRest
  /\ SkipAtRest
  /\ PlacementAtRest
  /\ TourInitial(1)
  /\ StepListAtRest
  /\ CampaignAtRest
  /\ ManagerAtRest
  /\ RefreshAtRest
  /\ dom \in Doms
  /\ container = 0
  /\ measured = <<>>

\* getOffset(element) for c = 0, getOffset(element, chain[c]) otherwise.
GetOffset(c) ==
  /\ c < Len(dom.chain)
  /\ measured' = <<getOffsetWithin(dom, c)>>
  /\ container' = c
  /\ UNCHANGED <<dom, nonOffsetVars>>

NextOffset == \E c \in 0..(MaxDepth + 1) : GetOffset(c)

SpecOffset == InitOffset /\ [][NextOffset]_vars

---------------------------------------------------------------------------
(* Properties of getOffset (checked under SpecOffset)                      *)

\* C26: every Offset returned has bottom = top + height and right = left +
\* width, and its absolute box is the element's viewport box moved by the
\* page scroll offsets, whatever branch was taken and whatever container
\* was passed.
C26_OffsetBoxes ==
  measured # <<>> =>
    /\ measured[1].bottom = measured[1].top + measured[1].height
    /\ measured[1].right = measured[1].left + measured[1].width
    /\ measured[1].absoluteTop = dom.rect.top + dom.pageYOffset
    /\ measured[1].absoluteLeft = dom.rect.left + dom.pageXOffset
    /\ measured[1].absoluteBottom = dom.rect.top + dom.rect.height + dom.pageYOffset
    /\ measured[1].absoluteRight = dom.rect.left + dom.rect.width + dom.pageXOffset

\* The relative-container branch was taken on a scrolled page, with a
\* scrolled container, and the relative box differs from the absolute one.
C26_Witness ==
  /\ measured # <<>>
  /\ ~dom.fixed
  /\ container = 1
  /\ dom.chain[1].tag = "div"
  /\ dom.chain[1].position = "relative"
  /\ dom.chain[1].scrollTop = 5
  /\ dom.pageYOffset = 4
  /\ measured[1].top # measured[1].absoluteTop

\* The scroll offsets of the scrollable ancestors chain[1..c].
RECURSIVE scrollWithin(_, _)
scrollWithin(chain, c) ==
  IF c = 0 THEN [top |-> 0, left |-> 0]
  ELSE LET below == scrollWithin(chain, c - 1)
       IN  IF chain[c].scrollable
             THEN [top |-> below.top + chain[c].scrollTop,
                   left |-> below.left + chain[c].scrollLeft]
             ELSE below

\* C27: for a non-fixed element and a relative or sticky container other
\* than body, top and left are the element box minus the container box plus
\* the scroll offsets of the scrollable ancestors from the element up to
\* and including the container, and of no ancestor above it.
C27_ScrollUpToContainer ==
  (/\ measured # <<>>
   /\ ~dom.fixed
   /\ container # 0
   /\ dom.chain[container].tag # "body"
   /\ dom.chain[container].position \in {"relative", "sticky"})
    => /\ measured[1].top = dom.rect.top - dom.chain[container].rect.top
                         + scrollWithin(dom.chain, container).top
       /\ measured[1].left = dom.rect.left - dom.chain[container].rect.left
                          + scrollWithin(dom.chain, container).left

---------------------------------------------------------------------------
(* Properties of the per-position rules of alignTooltip (checked under     *)
(* SpecAlign)                                                              *)

\* C28: for "left" and "right" alike, when the overlay does not overflow the
\* bottom of the viewport, the top edge is the 15px inset if step numbers
\* are shown outside hint mode and is left unset otherwise, and the overlay
\* is anchorWidth + 20 away from the opposite edge of the anchor.
C28_SideInset ==
  (/\ Aligned
   /\ position \in {"left", "right"}
   /\ ~tooltipBottomOverflow(targetOffset, tooltipHeight, windowSize))
    => /\ tooltipTop = (IF showStepNumbers /\ ~hintMode THEN Px(15) ELSE Auto)
       /\ position = "right" => tooltipLeft = Px(targetOffset.width + TooltipGap)
       /\ position = "left" => tooltipRight = Px(targetOffset.width + TooltipGap)

\* The horizontal offset from the anchor's left edge that the alignment of
\* a top or bottom position asks for.
AlignmentOffset ==
  CASE AlignOf(position) = "right"  -> targetOffset.width - tooltipWidth
    [] AlignOf(position) = "middle" -> (targetOffset.width - tooltipWidth) \div 2
    [] OTHER -> 0

\* The overlay at that offset lies inside the viewport with room to spare,
\* so that no clamp of alignTooltip applies.
NoClampApplies ==
  /\ targetOffset.left + AlignmentOffset >= 0
  /\ targetOffset.left + AlignmentOffset + tooltipWidth + 15 <= windowSize.width

\* C29: for top and bottom positions where no viewport clamp applies, the
\* overlay's left edge is at the alignment's offset from the anchor's left
\* edge, in tour mode and in hint mode, and the overlay is 20px above
\* (below) the anchor.
C29_AlignmentOffsets ==
  (Aligned /\ BaseOf(position) \in {"top", "bottom"} /\ NoClampApplies)
    => /\ BoxLeft - targetOffset.left = AlignmentOffset
       /\ BaseOf(position) = "top" => tooltipBottom = Px(targetOffset.height + TooltipGap)
       /\ BaseOf(position) = "bottom" => tooltipTop = Px(targetOffset.height + TooltipGap)

---------------------------------------------------------------------------
(* The refresh signal of the Tooltip component (tooltip.ts 343-421).       *)
(*                                                                         *)
(* The component holds the states windowSize, targetOffset, position and   *)
(* the six edges, the derived state tooltipBottomOverflow, and three       *)
(* derives: one re-reads the geometry when the refresh counter changes,    *)
(* one chooses the position, one aligns the edges.  A derive whose         *)
(* dependency changed is in dirty until it runs; the derives in dirty run  *)
(* one at a time in any order.                                             *)

Derives == {"refresh", "overflow", "position", "align"}

\* A variant of the refresh derive that keeps the window size it holds.
refreshDeriveCachedWindow(counter, window, target, nowWindow, nowRect) ==
  IF counter # Undefined
    THEN [windowSize |-> window, targetOffset |-> getOffset(nowRect, FALSE, 0, 0)]
    ELSE [windowSize |-> window, targetOffset |-> target]

\* The refresh derive: with a defined counter, windowSize and targetOffset
\* become what getWindowSize() and getOffset(element) read now.
refreshDerive(counter, window, target, nowWindow, nowRect) ==
  IF counter # Undefined
    THEN [windowSize |-> nowWindow, targetOffset |-> getOffset(nowRect, FALSE, 0, 0)]
    ELSE [windowSize |-> window, targetOffset |-> target]

\* A variant of the auto-position derive without the autoPosition and
\* "floating" parts of its guard.
positionDeriveUnguarded(initialPosition, auto, precedence, target, tipWidth, tipHeight, window, current) ==
  IF tipWidth # 0 /\ tipHeight # 0
    THEN determineAutoPosition(precedence, target, tipWidth, tipHeight, initialPosition, window)
    ELSE current

\* The guard of the auto-position derive.
autoPositionApplies(initialPosition, auto, tipWidth, tipHeight) ==
  initialPosition # "floating" /\ auto /\ tipWidth # 0 /\ tipHeight # 0

\* The auto-position derive: the new value of position.
positionDerive(initialPosition, auto, precedence, target, tipWidth, tipHeight, window, current) ==
  IF autoPositionApplies(initialPosition, auto, tipWidth, tipHeight)
    THEN determineAutoPosition(precedence, target, tipWidth, tipHeight, initialPosition, window)
    ELSE current

\* Bounds and inputs of the exploration.
MaxRefreshes == 2

RefreshViewports == {[width |-> 48, height |-> 40], [width |-> 24, height |-> 40]}

RefreshAnchors ==
  {[left |-> 0, top |-> 0, width |-> 8, height |-> 8],
   [left |-> 32, top |-> 32, width |-> 8, height |-> 8]}

\* The component as constructed: the states hold the geometry read at
\* construction, and every derive is about to run for the first time.
InitRefresh ==
  /\ OverlayAtRest
  /\ SkipAtRest
  /\ TourInitial(1)
  /\ StepListAtRest
  /\ CampaignAtRest
  /\ ManagerAtRest
  /\ OffsetAtRest
  /\ pc = "init"
  /\ runs = 0
  /\ positionPrecedence = <<"bottom", "top", "right", "left">>
  /\ tooltipWidth = 12
  /\ tooltipHeight = 20
  /\ showStepNumbers = FALSE
  /\ hintMode = FALSE
  /\ desiredTooltipPosition \in {"bottom", "floating"}
  /\ position = desiredTooltipPosition
  /\ viewport \in RefreshViewports
  /\ anchorRect \in RefreshAnchors
  /\ windowSize = viewport
  /\ targetOffset = getOffset(anchorRect, FALSE, 0, 0)
  /\ bottomOverflow = tooltipBottomOverflow(targetOffset, tooltipHeight, windowSize)
  /\ EdgesAre(InitialEdges)
  /\ refreshes = 0
  /\ seen = Undefined
  /\ dirty = Derives

\* A resize or a scroll changes the geometry of the page and the refresh
\* counter is incremented.
Trigger(nowWindow, nowRect) ==
  /\ refreshes < MaxRefreshes
  /\ refreshes' = refreshes + 1
  /\ viewport' = nowWindow
  /\ anchorRect' = nowRect
  /\ dirty' = dirty \cup {"refresh"}
  /\ UNCHANGED <<placementVars, seen, bottomOverflow, nonRefreshVars>>

\* The refresh derive runs: windowSize and targetOffset are assigned new
\* objects, so every derive that reads them has a changed dependency.
RunRefresh ==
  /\ "refresh" \in dirty
  /\ LET read == refreshDerive(refreshes, windowSize, targetOffset, viewport, anchorRect)
     IN  /\ windowSize' = read.windowSize
         /\ targetOffset' = read.targetOffset
  /\ seen' = refreshes
  /\ dirty' = (dirty \ {"refresh"}) \cup {"overflow", "position", "align"}
  /\ UNCHANGED <<pc, runs, positionPrecedence, tooltipWidth, tooltipHeight, showStepNumbers,
                 hintMode, desiredTooltipPosition, position, edgeVars, refreshes, viewport,
                 anchorRect, bottomOverflow, nonRefreshVars>>

\* The derived state tooltipBottomOverflow is recomputed.
RunOverflow ==
  /\ "overflow" \in dirty
  /\ bottomOverflow' = tooltipBottomOverflow(targetOffset, tooltipHeight, windowSize)
  /\ dirty' = (dirty \ {"overflow"}) \cup (IF bottomOverflow' # bottomOverflow THEN {"align"} ELSE {})
  /\ UNCHANGED <<placementVars, refreshes, seen, viewport, anchorRect, nonRefreshVars>>

\* The auto-position derive runs.
RunPosition ==
  /\ "position" \in dirty
  /\ position' = positionDerive(desiredTooltipPosition, autoPosition, positionPrecedence,
                                targetOffset, tooltipWidth, tooltipHeight, windowSize, position)
  /\ dirty' = (dirty \ {"position"}) \cup (IF position' # position THEN {"align"} ELSE {})
  /\ UNCHANGED <<inputVars, pc, runs, edgeVars, refreshes, seen, viewport, anchorRect,
                 bottomOverflow, nonRefreshVars>>

\* The align derive runs alignTooltip on the values the states hold.
RunAlign ==
  /\ "align" \in dirty
  /\ EdgesBecome(alignTooltip(position, targetOffset, windowSize, tooltipWidth, tooltipHeight,
                              bottomOverflow, showStepNumbers, hintMode, CurrentEdges))
  /\ dirty' = dirty \ {"align"}
  /\ UNCHANGED <<inputVars, pc, runs, position, refreshes, seen, viewport, anchorRect,
                 bottomOverflow, nonRefreshVars>>

NextRefresh ==
  \/ \E nowWindow \in RefreshViewports, nowRect \in RefreshAnchors : Trigger(nowWindow, nowRect)
  \/ RunRefresh
  \/ RunOverflow
  \/ RunPosition
  \/ RunAlign

\* While some derive has a changed dependency, a derive runs eventually.
SpecRefresh ==
  /\ InitRefresh
  /\ [][NextRefresh]_vars
  /\ WF_vars(RunRefresh \/ RunOverflow \/ RunPosition \/ RunAlign)

---------------------------------------------------------------------------
(* Properties of the refresh signal (checked under SpecRefresh)            *)

\* The states hold the geometry as it is now, and position and edges are
\* the ones computed from it.
EdgesFresh ==
  /\ windowSize = viewport
  /\ targetOffset = getOffset(anchorRect, FALSE, 0, 0)
  /\ bottomOverflow = tooltipBottomOverflow(targetOffset, tooltipHeight, windowSize)
  /\ position = positionDerive(desiredTooltipPosition, autoPosition, positionPrecedence,
                               targetOffset, tooltipWidth, tooltipHeight, windowSize, position)
  /\ EdgesAre(alignTooltip(position, targetOffset, windowSize, tooltipWidth, tooltipHeight,
                           bottomOverflow, showStepNumbers, hintMode, CurrentEdges))

\* C30: from some point on (once triggers have stopped) the refresh derive
\* has used the last value of the counter, no derive is waiting, and the
\* states hold the geometry as it is after the last increment, with
\* position and edges computed from it.
C30_RefreshNotLost == <>[](dirty = {} /\ seen = refreshes /\ EdgesFresh)

\* After a burst of two increments that narrowed the window, everything
\* has been recomputed from the narrow window.
C30_Witness ==
  /\ refreshes = 2
  /\ seen = 2
  /\ dirty = {}
  /\ windowSize = [width |-> 24, height |-> 40]
  /\ anchorRect.left = 0
  /\ position # desiredTooltipPosition
  /\ EdgesFresh

---------------------------------------------------------------------------
(* The post-render measurement of the Tooltip component (tooltip.ts        *)
(* 350-451).  The component is constructed with the nominal overlay size;  *)
(* a timer of 1ms then assigns tooltip.offsetHeight and tooltip.offsetWidth *)
(* to tooltipHeight and tooltipWidth, once.  overlay.box is the box the     *)
(* overlay has once it is laid out; before that its offsetWidth and        *)
(* offsetHeight are 0.                                                     *)

NominalWidth == 300

NominalHeight == 250

\* tooltip.offsetWidth and tooltip.offsetHeight as read now.
offsetBox(o) == IF o.painted THEN o.box ELSE [width |-> 0, height |-> 0]

\* Inputs of the exploration.
MeasureBoxes == {[width |-> 200, height |-> 100], [width |-> 300, height |-> 250]}

MeasureViewports == {[width |-> 1000, height |-> 800], [width |-> 500, height |-> 800]}

MeasureAnchors ==
  {[left |-> 400, top |-> 200, width |-> 100, height |-> 50],
   [left |-> 100, top |-> 600, width |-> 100, height |-> 50]}

MeasurePositions == {"bottom", "top-right-aligned", "left", "floating"}

InitMeasure ==
  /\ SkipAtRest
  /\ TourInitial(1)
  /\ CampaignAtRest
  /\ ManagerAtRest
  /\ OffsetAtRest
  /\ markup = [elements |-> <<>>, group |-> ""]
  /\ stepsOption = <<>>
  /\ autoPosition \in BOOLEAN
  /\ introSteps = <<>>
  /\ fetched = FALSE
  /\ tipStep = 0
  /\ tipPosition = "bottom"
  /\ tipPasses = 0
  /\ pc = "init"
  /\ runs = 0
  /\ positionPrecedence = <<"bottom", "top", "right", "left">>
  /\ tooltipWidth = NominalWidth
  /\ tooltipHeight = NominalHeight
  /\ showStepNumbers = FALSE
  /\ hintMode = FALSE
  /\ desiredTooltipPosition \in MeasurePositions
  /\ position = desiredTooltipPosition
  /\ viewport = [width |-> 1000, height |-> 800]
  /\ anchorRect = [left |-> 400, top |-> 200, width |-> 100, height |-> 50]
  /\ windowSize = viewport
  /\ targetOffset = getOffset(anchorRect, FALSE, 0, 0)
  /\ bottomOverflow = tooltipBottomOverflow(targetOffset, tooltipHeight, windowSize)
  /\ EdgesAre(InitialEdges)
  /\ refreshes = 0
  /\ seen = Undefined
  /\ dirty = Derives
  /\ \E box \in MeasureBoxes : overlay = [painted |-> FALSE, box |-> box, timer |-> "pending"]

\* The overlay is attached and laid out: it has its real box from now on.
Paint ==
  /\ ~overlay.painted
  /\ overlay' = [overlay EXCEPT !.painted = TRUE]
  /\ UNCHANGED <<placementVars, refreshVars, nonRefreshVarsButOverlay>>

\* The measuring timer fires: tooltipHeight and tooltipWidth become the
\* overlay's offsetHeight and offsetWidth; derives reading a changed size
\* have a changed dependency.
Measure ==
  /\ overlay.timer = "pending"
  /\ tooltipHeight' = offsetBox(overlay).height
  /\ tooltipWidth' = offsetBox(overlay).width
  /\ overlay' = [overlay EXCEPT !.timer = "fired"]
  /\ dirty' = dirty \cup (IF tooltipHeight' # tooltipHeight \/ tooltipWidth' # tooltipWidth
                            THEN {"overflow", "position", "align"} ELSE {})
  /\ UNCHANGED <<pc, runs, positionPrecedence, targetOffset, windowSize, showStepNumbers,
                 hintMode, desiredTooltipPosition, position, edgeVars, refreshes, seen,
                 viewport, anchorRect, bottomOverflow, nonRefreshVarsButOverlay>>

NextMeasure ==
  \/ Paint
  \/ Measure
  \/ \E nowWindow \in MeasureViewports, nowRect \in MeasureAnchors : Trigger(nowWindow, nowRect)
  \/ RunRefresh
  \/ RunOverflow
  \/ RunPosition
  \/ RunAlign

\* The overlay is laid out eventually, the timer fires eventually, and while
\* some derive has a changed dependency a derive runs eventually.
SpecMeasure ==
  /\ InitMeasure
  /\ [][NextMeasure]_vars
  /\ WF_vars(Paint \/ Measure \/ RunRefresh \/ RunOverflow \/ RunPosition \/ RunAlign)

---------------------------------------------------------------------------
(* Properties of the measurement (checked under SpecMeasure)               *)

\* Position and edges are the ones computed from the overlay's real box.
PlacedForRealBox ==
  /\ overlay.painted
  /\ position = positionDerive(desiredTooltipPosition, autoPosition, positionPrecedence,
                               targetOffset, overlay.box.width, overlay.box.height,
                               windowSize, position)
  /\ EdgesAre(alignTooltip(position, targetOffset, windowSize, overlay.box.width,
                           overlay.box.height,
                           tooltipBottomOverflow(targetOffset, overlay.box.height, windowSize),
                           showStepNumbers, hintMode, CurrentEdges))

\* C31: placement starts from the nominal size, and from some point on the
\* position and the edges are the ones computed from the overlay's real
\* box, none of the six edges being undefined.
C31_RemeasuredPlacement ==
  <>[](/\ PlacedForRealBox
       /\ \A e \in {tooltipTop, tooltipRight, tooltipBottom, tooltipLeft,
                    tooltipMarginLeft, tooltipMarginTop} : e.kind # "invalid")

---------------------------------------------------------------------------
(* The skip button's handler (onSkipClick of TourRoot.ts) with its awaits. *)
(* The handler invokes a callback and is suspended until the promise the   *)
(* callback returned settles; a call of nextStep and exit() can run in     *)
(* between.  skip.log lists what the handler of the last click has done.   *)

MaxClicks == 2

\* A variant of the handler that invokes the complete callback on any step.
firstCallbackAlwaysComplete(lastStep) == "complete"

\* The callback onSkipClick invokes first: complete when tour.isLastStep().
firstCallback(lastStep) == IF lastStep THEN "complete" ELSE "skip"

\* What an awaited callback can do.
CallbackOutcomes == {"resolve", "reject"}

InitSkip ==
  /\ OverlayAtRest
  /\ SkipAtRest
  /\ PlacementAtRest
  /\ StepListAtRest
  /\ CampaignAtRest
  /\ ManagerAtRest
  /\ OffsetAtRest
  /\ RefreshAtRest
  /\ \E n \in 1..MaxSteps : TourInitial(n)

\* The skip button is clicked: the handler runs up to its first await.
SkipClick ==
  /\ currentStep # Undefined
  /\ skip.pc \in {"idle", "done", "failed"}
  /\ skip.clicks < MaxClicks
  /\ LET lastStep == isLastStep(currentStep, stepCount)
         first == firstCallback(lastStep)
     IN  /\ skip' = [pc |-> first, atLast |-> lastStep, log |-> <<<<first, "invoked">>>>,
                     clicks |-> skip.clicks + 1]
         /\ completeCalls' = IF first = "complete" THEN completeCalls + 1 ELSE completeCalls
         /\ completeReason' = IF first = "complete" THEN "skip" ELSE completeReason
         /\ skipCalls' = IF first = "skip" THEN skipCalls + 1 ELSE skipCalls
  /\ UNCHANGED <<nonTourVarsButSkip, stepCount, currentStep, direction, navVars, hookCalls,
                 showCalls, lastShown, exitCalls>>

\* The promise of the complete callback settles: a rejection ends the
\* handler, otherwise the skip callback is invoked and awaited.
CompleteSettles ==
  /\ skip.pc = "complete"
  /\ \E outcome \in CallbackOutcomes :
       IF outcome = "reject"
         THEN /\ skip' = [skip EXCEPT !.pc = "failed",
                                      !.log = Append(@, <<"complete", "rejected">>)]
              /\ skipCalls' = skipCalls
         ELSE /\ skip' = [skip EXCEPT !.pc = "skip",
                                      !.log = @ \o <<<<"complete", "resolved">>,
                                                     <<"skip", "invoked">>>>]
              /\ skipCalls' = skipCalls + 1
  /\ UNCHANGED <<nonTourVarsButSkip, stepCount, currentStep, direction, navVars, hookCalls,
                 showCalls, lastShown, completeCalls, completeReason, exitCalls>>

\* The promise of the skip callback settles: a rejection ends the handler,
\* otherwise tour.exit() is invoked; from Idle exit does nothing.
SkipSettles ==
  /\ skip.pc = "skip"
  /\ \E outcome \in CallbackOutcomes :
       IF outcome = "reject"
         THEN /\ skip' = [skip EXCEPT !.pc = "failed",
                                      !.log = Append(@, <<"skip", "rejected">>)]
              /\ UNCHANGED <<currentStep, exitCalls, navStale>>
         ELSE /\ skip' = [skip EXCEPT !.pc = "done",
                                      !.log = @ \o <<<<"skip", "resolved">>,
                                                     <<"exit", "invoked">>>>]
              /\ IF currentStep # Undefined
                   THEN ExitTour
                   ELSE UNCHANGED <<currentStep, exitCalls, navStale>>
  /\ UNCHANGED <<nonTourVarsButSkip, stepCount, direction, navPc, navKind, navTarget,
                 navResult, navId, navHook, navCount, hookCalls, showCalls, lastShown,
                 completeCalls, completeReason, skipCalls>>

NextSkip ==
  \/ SkipClick
  \/ CompleteSettles
  \/ SkipSettles
  \/ NextStepCall(1)
  \/ NextStepResume(1)
  \/ Exit

SpecSkip == InitSkip /\ [][NextSkip]_vars

---------------------------------------------------------------------------
(* Properties of the skip handler (checked under SpecSkip)                 *)

\* What the handler does when every callback resolves, from a click on the
\* last step and from a click on another step.
SkipOrderAtLast ==
  <<<<"complete", "invoked">>, <<"complete", "resolved">>, <<"skip", "invoked">>,
    <<"skip", "resolved">>, <<"exit", "invoked">>>>

SkipOrderElsewhere ==
  <<<<"skip", "invoked">>, <<"skip", "resolved">>, <<"exit", "invoked">>>>

\* log is order, or a part of order from its start with, possibly, the
\* rejection of the callback invoked last in place of what follows.
FollowsOrder(log, order) ==
  /\ Len(log) <= Len(order)
  /\ \A i \in 1..Len(log) :
       \/ log[i] = order[i]
       \/ /\ i = Len(log)
          /\ i > 1
          /\ log[i] = <<log[i - 1][1], "rejected">>
          /\ log[i - 1][2] = "invoked"

\* C40: after a skip click the handler invokes complete (on the last step
\* only), then skip, then exit, each one after the one before has
\* resolved; when the callbacks have resolved exit has been invoked; on a
\* step that is not the last the complete callback is not invoked.
C40_SkipOrder ==
  /\ FollowsOrder(skip.log, IF skip.atLast THEN SkipOrderAtLast ELSE SkipOrderElsewhere)
  /\ (\E i \in 1..Len(skip.log) : skip.log[i] = <<"skip", "resolved">>)
       => skip.log[Len(skip.log)] = <<"exit", "invoked">>
  /\ ~skip.atLast => \A i \in 1..Len(skip.log) : skip.log[i][1] # "complete"

\* A click on the last step has run to its end: complete, skip and exit
\* were invoked in that order, each after the one before had resolved.
C40_Witness ==
  /\ skip.clicks = 1
  /\ skip.atLast
  /\ skip.pc = "done"
  /\ skip.log = SkipOrderAtLast
  /\ completeReason = "skip"
  /\ currentStep = Undefined
  /\ exitCalls >= 1

====
